---- MODULE Spec2Model ----
(***************************************************************************)
(* Delivery pipeline of event-driven-ns: the intake service (Create,       *)
(* CreateBatch, Cancel), the notification store, the three priority       *)
(* topics with their consumer loops, the delivery coordinator              *)
(* (ProcessDelivery) and the scheduler sweeps.  Every store statement,     *)
(* topic write and provider call is one atomic step; the steps of          *)
(* different requests and loops interleave freely.                         *)
(***************************************************************************)
EXTENDS Integers, Sequences, FiniteSets, TLC

\* ------------------------------------------------------------------ bounds
MaxNotif == 2           \* slots of the notifications table
MaxRows == 1            \* rows created in a run of the whole pipeline
MaxBatchRows == 2       \* rows created in a run of the batch scenario
MaxBatch == 1           \* batch rows that can be created
MaxKeys == 1            \* distinct idempotency keys used by callers
MaxClients == 2         \* intake requests in progress at the same time
MaxBatchSize == 2       \* notifications in one CreateBatch request
MaxReplays == 2          \* faults in a run of the replay scenario
MaxStuckFaults == 3     \* faults in a run of the stuck-row scenario
MaxPublishes == 2       \* messages per notification in the publisher scenario
MaxListRows == 3        \* rows of the table in the listing scenario
MaxCreatedAt == 2       \* distinct created_at instants of those rows
MaxAttempt == 6         \* attempt numbers in the retry-delay scenario
MaxFaults == 1          \* worker restarts, rows left processing for more than
                        \* 5 minutes, and store or topic errors, in one run

Ids == 1..MaxNotif
BatchIds == 1..MaxBatch
Keys == 1..MaxKeys
Clients == 1..MaxClients
Nil == 0

\* ------------------------------------------------------------------ domain
ChannelSMS == "sms"
ChannelEmail == "email"
Channels == {ChannelSMS, ChannelEmail}

PriorityHigh == "high"
PriorityNormal == "normal"
PriorityLow == "low"
Priorities == {PriorityHigh, PriorityNormal, PriorityLow}

StatusPending == "pending"
StatusScheduled == "scheduled"
StatusProcessing == "processing"
StatusDelivered == "delivered"
StatusFailed == "failed"
StatusCancelled == "cancelled"

Terminal == {StatusDelivered, StatusFailed, StatusCancelled}

priorityMaxRetries(p) ==
    CASE p = PriorityHigh -> 5
      [] p = PriorityNormal -> 3
      [] p = PriorityLow -> 2

topicForPriority(p) ==
    CASE p = PriorityHigh -> "notifications.high"
      [] p = PriorityNormal -> "notifications.normal"
      [] p = PriorityLow -> "notifications.low"

priorityTopics == {topicForPriority(p) : p \in Priorities}

\* Errors a call can return.  "nil" is success.
ErrNil == "nil"
ErrProviderUnavailable == "delivery provider unavailable"
ErrCircuitOpen == "circuit breaker is open"
ErrPermanent == "permanent provider error"
ErrOpenState == "gobreaker: circuit breaker is open"
ErrTooManyRequests == "gobreaker: too many requests"
ErrNotificationNotFound == "notification not found"
ErrInvalidUUID == "invalid UUID"
ErrInvalidStatusTransition == "invalid status transition"
ErrDuplicateIdempotencyKey == "duplicate idempotency key"
ErrBatchEmpty == "batch must contain at least one notification"
ErrBatchTooLarge == "batch exceeds maximum size of 1000"
ErrInvalidPriority == "invalid priority"
ErrStore == "store error"
ErrPublish == "publish error"
ErrUnknownPriority == "unknown priority"

\* A slot of the notifications table that holds no row.
NoRow == [id |-> Nil]

\* scheduled_at: "nil", or a time still in the "future", or one that is "due".
NewNotification(id, channel, priority, scheduledAt) ==
    [id |-> id,
     batch_id |-> Nil,
     idempotency_key |-> Nil,
     channel |-> channel,
     priority |-> priority,
     status |-> IF scheduledAt # "nil" THEN StatusScheduled ELSE StatusPending,
     scheduled_at |-> scheduledAt,
     sent_at |-> FALSE,
     failed_at |-> FALSE,
     error_message |-> ErrNil,
     retry_count |-> 0,
     max_retries |-> priorityMaxRetries(priority),
     provider_message_id |-> FALSE,
     stuck |-> FALSE]

\* A variant that lets a row of any status be cancelled.
CanCancelAlways(n) == TRUE

CanCancel(n) == n.status = StatusPending \/ n.status = StatusScheduled

MarkProcessing(n) == [n EXCEPT !.status = StatusProcessing, !.stuck = FALSE]

MarkDelivered(n) ==
    [n EXCEPT !.status = StatusDelivered, !.provider_message_id = TRUE,
              !.sent_at = TRUE, !.stuck = FALSE]

MarkFailed(n, errMsg) ==
    [n EXCEPT !.status = StatusFailed, !.error_message = errMsg,
              !.failed_at = TRUE, !.stuck = FALSE]

\* A variant that counts an attempt twice.
IncrementRetryTwice(n) == [n EXCEPT !.retry_count = @ + 2, !.stuck = FALSE]

IncrementRetry(n) == [n EXCEPT !.retry_count = @ + 1, !.stuck = FALSE]

HasRetriesLeft(n) == n.retry_count < n.max_retries

\* A variant that takes every error for a transient one.
isTransientAny(err) == err # ErrNil

isTransient(err) == err = ErrProviderUnavailable \/ err = ErrCircuitOpen

\* ------------------------------------------------------------------ state
VARIABLES
    notifications,      \* table notifications: id -> row, or NoRow
    batches,            \* table notification_batches: id -> counters, or NoRow
    idempotency_keys,   \* table idempotency_keys: key -> binding, or NoRow
    topics,             \* topic -> the uncommitted messages, oldest first
    consumers,          \* topic -> the state of its consume loop
    scheduler,          \* the state of the scheduler loop
    clients,            \* intake request -> its state
    breakers,           \* channel -> the state of its circuit breaker
    streak,             \* channel -> provider calls that failed in a row
    faults,             \* crashes, 5-minute delays and errors so far
    budget,             \* faults this run may have
    capacity,           \* notification rows this run may create
    ctx,                \* the worker's context: "running", "cancelled", or
                        \* "stopped" once Consumer.Stop has returned
    listing,            \* the pages a caller of GET /notifications has got
    backoff,            \* the sleep of Consumer.retry before a re-attempt
    sends,              \* id -> calls of it the provider answered
    bumps,              \* id -> IncrementBatchCounter statements applied for it
    publishes,          \* id -> messages written for it by Enqueue
    broadcasts          \* id -> status broadcasts emitted for it

vars == <<notifications, batches, idempotency_keys, topics, consumers,
          scheduler, clients, breakers, streak, faults, budget, capacity, ctx,
          listing, backoff, sends, bumps, publishes, broadcasts>>

store == <<notifications, batches, idempotency_keys>>
limits == <<budget, capacity, ctx, listing, backoff>>
breaker == <<breakers, streak>>
ghosts == <<limits, breaker, sends, bumps, publishes, broadcasts>>

\* ------------------------------------------------------------------ store
\* Each operator is one SQL statement: it maps the table to the table after it.

\* UPDATE notifications SET status, sent_at, failed_at, error_message,
\* retry_count, provider_message_id, updated_at WHERE id = n.id
UpdateStatus(rows, n) ==
    IF rows[n.id].id = Nil THEN rows
    ELSE [rows EXCEPT ![n.id] =
            [@ EXCEPT !.status = n.status,
                      !.sent_at = n.sent_at,
                      !.failed_at = n.failed_at,
                      !.error_message = n.error_message,
                      !.retry_count = n.retry_count,
                      !.provider_message_id = n.provider_message_id,
                      !.stuck = n.stuck]]

\* UPDATE notifications SET status='cancelled', updated_at=NOW()
\* WHERE id = id AND status IN ('pending','scheduled'); the rows affected.
CancelRowsAffected(rows, id) ==
    IF rows[id].id # Nil /\ rows[id].status \in {StatusPending, StatusScheduled}
    THEN 1 ELSE 0

RepoCancel(rows, id) ==
    IF CancelRowsAffected(rows, id) = 1
    THEN [rows EXCEPT ![id] = [@ EXCEPT !.status = StatusCancelled, !.stuck = FALSE]]
    ELSE rows

\* A variant of the counter statement that leaves pending_count as it is.
IncrementBatchCounterKeepsPending(bs, batchID, status) ==
    IF bs[batchID].id = Nil THEN bs
    ELSE CASE status = StatusDelivered ->
                [bs EXCEPT ![batchID].delivered_count = @ + 1]
           [] status = StatusFailed ->
                [bs EXCEPT ![batchID].failed_count = @ + 1]
           [] status = StatusCancelled ->
                [bs EXCEPT ![batchID].cancelled_count = @ + 1]
           [] OTHER -> bs

\* UPDATE notification_batches SET <column> = <column> + 1,
\* pending_count = pending_count - 1 WHERE id = batchID
IncrementBatchCounter(bs, batchID, status) ==
    IF bs[batchID].id = Nil THEN bs
    ELSE CASE status = StatusDelivered ->
                [bs EXCEPT ![batchID] = [@ EXCEPT !.delivered_count = @ + 1,
                                                  !.pending_count = @ - 1]]
           [] status = StatusFailed ->
                [bs EXCEPT ![batchID] = [@ EXCEPT !.failed_count = @ + 1,
                                                  !.pending_count = @ - 1]]
           [] status = StatusCancelled ->
                [bs EXCEPT ![batchID] = [@ EXCEPT !.cancelled_count = @ + 1,
                                                  !.pending_count = @ - 1]]
           [] OTHER -> bs

\* SELECT ... WHERE status = 'scheduled' AND scheduled_at <= NOW()
DueScheduled(rows) ==
    {i \in Ids : rows[i].id # Nil /\ rows[i].status = StatusScheduled
                 /\ rows[i].scheduled_at = "due"}

\* SELECT ... WHERE status = 'processing' AND updated_at < NOW() - 5 minutes
StuckProcessing(rows) ==
    {i \in Ids : rows[i].id # Nil /\ rows[i].status = StatusProcessing
                 /\ rows[i].stuck}

\* The sequences that list each member of S once, in any order.
Orders(S) ==
    {q \in [1..Cardinality(S) -> S] : \A i, j \in 1..Cardinality(S) :
                                          i # j => q[i] # q[j]}

ListLimitScheduled == 100
ListLimitStuck == 50

Limit(q, k) == IF Len(q) > k THEN SubSeq(q, 1, k) ELSE q

\* rows -> the possible results of the query, as copies of the rows
ListDueScheduled(rows, lim) ==
    {Limit([i \in 1..Len(q) |-> rows[q[i]]], lim) : q \in Orders(DueScheduled(rows))}

ListStuckProcessing(rows, lim) ==
    {Limit([i \in 1..Len(q) |-> rows[q[i]]], lim) : q \in Orders(StuckProcessing(rows))}

\* SELECT notification_id FROM idempotency_keys WHERE key AND expires_at > NOW()
Check(keys, k) ==
    IF keys[k].id # Nil /\ ~keys[k].expired THEN keys[k].notification_id ELSE Nil

\* INSERT INTO idempotency_keys ... ON CONFLICT (key) DO NOTHING
SetNX(keys, k, id) ==
    IF keys[k].id = Nil
    THEN [keys EXCEPT ![k] = [id |-> k, notification_id |-> id, expired |-> FALSE]]
    ELSE keys

\* The UNIQUE constraint on notifications.idempotency_key.
UniqueViolation(rows, k) ==
    k # Nil /\ \E i \in Ids : rows[i].id # Nil /\ rows[i].idempotency_key = k

FreeIds(rows) == {i \in Ids : i <= capacity /\ rows[i].id = Nil}
NextId(rows) == CHOOSE i \in FreeIds(rows) : \A j \in FreeIds(rows) : i <= j

\* ------------------------------------------------------------------ topics
\* A notification id as a string is the number of its row; the strings that
\* are no UUID are the numbers below 1.
InvalidID == -1

\* uuid.Parse(s) returns an error.
ParseFails(s) == s < 1

NotificationPayload(n) == [notification_id |-> n.id, channel |-> n.channel]

\* json.Marshal(payload): the bytes of a JSON object with the payload's fields.
Marshal(payload) ==
    [json |-> TRUE, notification_id |-> payload.notification_id,
     channel |-> payload.channel]

\* Bytes that are no JSON object of the payload's type.
Garbage == [json |-> FALSE, notification_id |-> Nil, channel |-> ""]

\* A variant of the decoder that takes any bytes for a payload.
UnmarshalNeverFails(bytes) == FALSE

\* json.Unmarshal(bytes, &payload) returns an error.
UnmarshalFails(bytes) == ~bytes.json

\* json.Unmarshal(bytes, &payload): the payload.
Unmarshal(bytes) ==
    [notification_id |-> bytes.notification_id, channel |-> bytes.channel]

\* A variant of the message that has no key.
MessageWithoutKey(n) == [key |-> Nil, value |-> Marshal(NotificationPayload(n))]

\* kafka.Message{Key: []byte(n.ID.String()), Value: value}
Message(n) == [key |-> n.id, value |-> Marshal(NotificationPayload(n))]

\* Producer.Enqueue: the error it returns before it writes anything, when
\* topicForPriority has no entry for the priority.
EnqueueError(n) ==
    IF n.priority \in Priorities THEN ErrNil ELSE ErrUnknownPriority

\* Producer.Enqueue: the topics after the write succeeded.
Enqueue(ts, n) ==
    IF EnqueueError(n) # ErrNil THEN ts
    ELSE [ts EXCEPT ![topicForPriority(n.priority)] = Append(@, Message(n))]

Bump(f, x) == [f EXCEPT ![x] = @ + 1]

\* A variant of the context that is never done.
ctxErrNever == FALSE

\* ctx.Err() != nil: the worker's context is cancelled.
ctxErr == ctx # "running"

StoreMayFail == faults < budget
PublishMayFail == faults < budget

\* ------------------------------------------------------------------ breaker
\* The circuit breaker of one channel, as circuitbreaker.New configures it.
\* Of the breaker's counts the record keeps those a decision reads: the
\* requests admitted and the consecutive successes while half-open, the
\* consecutive failures while closed.  A change of state and the end of a
\* counting interval start a new generation: the counts are cleared, and
\* the result of a call admitted before it is not counted.
MaxRequests == 3
ConsecutiveFailuresToTrip == 5

StateClosed == "closed"
StateOpen == "open"
StateHalfOpen == "half-open"

NewGeneration(state) ==
    [state |-> state, requests |-> 0, failures |-> 0, successes |-> 0]

\* circuitbreaker.New(name)
NewBreaker == NewGeneration(StateClosed)

\* A variant that trips the breaker at the first failure.
ReadyToTripAtOnce(b) == b.failures >= 1

ReadyToTrip(b) == b.failures >= ConsecutiveFailuresToTrip

\* beforeRequest: the error the breaker rejects the call with, or nil.
Rejection(b) ==
    IF b.state = StateOpen THEN ErrOpenState
    ELSE IF b.state = StateHalfOpen /\ b.requests >= MaxRequests
    THEN ErrTooManyRequests
    ELSE ErrNil

\* beforeRequest: the breaker after it admitted a call.
OnRequest(b) ==
    IF b.state = StateHalfOpen THEN [b EXCEPT !.requests = @ + 1] ELSE b

\* afterRequest for a call of the current generation that returned nil.
OnSuccess(b) ==
    IF b.state = StateHalfOpen
    THEN IF b.successes + 1 >= MaxRequests
         THEN NewGeneration(StateClosed)
         ELSE [b EXCEPT !.successes = @ + 1, !.failures = 0]
    ELSE [b EXCEPT !.failures = 0]

\* afterRequest for a call of the current generation that returned an error.
OnFailure(b) ==
    IF b.state = StateHalfOpen THEN NewGeneration(StateOpen)
    ELSE LET c == [b EXCEPT !.failures = @ + 1, !.successes = 0] IN
         IF ReadyToTrip(c) THEN NewGeneration(StateOpen) ELSE c

\* afterRequest: fresh is whether the call was admitted in this generation.
AfterRequest(b, fresh, err) ==
    IF ~fresh THEN b
    ELSE IF err = ErrNil THEN OnSuccess(b) ELSE OnFailure(b)

\* The consume loops after channel ch started a new generation: the calls
\* in flight on ch are of an earlier generation.
Outdated(cs, ch) ==
    [t \in DOMAIN cs |->
        IF cs[t].pc = "do_send" /\ cs[t].n.channel = ch
        THEN [cs[t] EXCEPT !.fresh = FALSE] ELSE cs[t]]

\* The provider calls of channel ch that failed in a row, after one more
\* call returned err; the count stops at the number that trips the breaker.
StreakAfter(k, err) ==
    IF err = ErrNil THEN 0
    ELSE IF k < ConsecutiveFailuresToTrip THEN k + 1 ELSE k

\* ------------------------------------------------------------------ worker
\* The consume loop of one topic (Consumer.consume) with the handler it calls
\* (DeliveryService.ProcessDelivery).  pc is the statement the loop is at:
\*   "fetch"    reader.FetchMessage
\*   "drop"     reader.CommitMessages of a message that cannot be decoded
\*   "mark"     repo.UpdateStatus after MarkProcessing
\*   "send"     provider.Send: the admission by the channel's breaker
\*   "do_send"  provider.Send: the HTTP call and the breaker's account of it
\*   "update"   repo.UpdateStatus after the provider answered
\*   "counter"  repo.IncrementBatchCounter
\*   "returned" the handler returned err
\*   "commit"   reader.CommitMessages
\*   "exited"   consume has returned
\* limited is whether limiter.Wait was called for the message, fresh whether
\* the provider call in flight is of the breaker's current generation.
IdleConsumer ==
    [pc |-> "fetch", n |-> NoRow, sendErr |-> ErrNil, err |-> ErrNil,
     fresh |-> FALSE, limited |-> FALSE]

Returned(c, err) == [c EXCEPT !.pc = "returned", !.err = err]

\* ProcessDelivery up to its first store write: uuid.Parse, GetByID, the
\* skip of a cancelled or delivered row, MarkProcessing.
ProcessDeliveryLoad(c, rows, notificationID) ==
    IF ParseFails(notificationID)
    THEN Returned(c, ErrInvalidUUID)
    ELSE IF notificationID \notin Ids \/ rows[notificationID].id = Nil
    THEN Returned(c, ErrNotificationNotFound)
    ELSE IF rows[notificationID].status = StatusCancelled
            \/ rows[notificationID].status = StatusDelivered
    THEN Returned(c, ErrNil)
    ELSE [c EXCEPT !.pc = "mark", !.n = MarkProcessing(rows[notificationID])]

\* The channels NewConsumer makes a limiter for.
Limiters == Channels

\* A variant with one reader for the three topics: a message is fetched only
\* when no other loop has a message in hand.
FetchMessageInTurn(t) ==
    /\ topics[t] # <<>>
    /\ \A u \in priorityTopics \ {t} : consumers[u].pc = "fetch"

\* reader.FetchMessage of the loop's own reader (Start makes one reader and
\* one goroutine per topic): it returns when its topic has a message.
FetchMessage(t) == topics[t] # <<>>

\* FetchMessage and the loop up to the handler's first store write: the
\* decoding of the value (a message that cannot be decoded goes to its
\* commit), limiter.Wait for the payload's channel, and the handler.
ConsumeFetch(t) ==
    /\ consumers[t].pc = "fetch"
    /\ ~ctxErr
    /\ FetchMessage(t)
    /\ LET msg == Head(topics[t])
           payload == Unmarshal(msg.value) IN
       consumers' = [consumers EXCEPT ![t] =
                        IF UnmarshalFails(msg.value)
                        THEN [@ EXCEPT !.pc = "drop"]
                        ELSE ProcessDeliveryLoad(
                                 [@ EXCEPT !.limited = payload.channel \in Limiters],
                                 notifications, payload.notification_id)]
    /\ UNCHANGED <<store, topics, scheduler, clients, faults, ghosts>>

\* s.repo.UpdateStatus(ctx, notification) after MarkProcessing; an error is returned.
ConsumeMarkProcessing(t) ==
    /\ consumers[t].pc = "mark"
    /\ \/ /\ notifications' = UpdateStatus(notifications, consumers[t].n)
          /\ consumers' = [consumers EXCEPT ![t].pc = "send"]
          /\ UNCHANGED faults
       \/ /\ StoreMayFail
          /\ faults' = faults + 1
          /\ consumers' = [consumers EXCEPT ![t] = Returned(@, ErrStore)]
          /\ UNCHANGED notifications
    /\ UNCHANGED <<batches, idempotency_keys, topics, scheduler, clients, ghosts>>

\* What doSend can return: nil, a transient error that wraps
\* ErrProviderUnavailable, or a permanent error.
DoSendResults == {ErrNil, ErrProviderUnavailable, ErrPermanent}

\* ProcessDelivery from provider.Send to the store write that follows it:
\* the row as marked, for the answer sendErr.
AfterSend(n, sendErr) ==
    IF sendErr # ErrNil
    THEN LET r == IncrementRetry(n) IN
         IF isTransient(sendErr) /\ HasRetriesLeft(r)
         THEN r
         ELSE MarkFailed(r, sendErr)
    ELSE MarkDelivered(n)

\* The handler's return value for the answer sendErr and the row as marked.
WillRetry(n, sendErr) == sendErr # ErrNil /\ n.status # StatusFailed

\* WebhookProvider.Send up to the admission of the call by the breaker of
\* the notification's channel; a rejection is returned as it is.
ConsumeSend(t) ==
    /\ consumers[t].pc = "send"
    /\ LET n == consumers[t].n
           b == breakers[n.channel]
           rejection == Rejection(b) IN
       IF rejection # ErrNil
       THEN /\ consumers' = [consumers EXCEPT ![t] =
                                [@ EXCEPT !.pc = "update",
                                          !.n = AfterSend(@, rejection),
                                          !.sendErr = rejection]]
            /\ UNCHANGED breakers
       ELSE /\ consumers' = [consumers EXCEPT ![t] =
                                [@ EXCEPT !.pc = "do_send", !.fresh = TRUE]]
            /\ breakers' = [breakers EXCEPT ![n.channel] = OnRequest(b)]
    /\ UNCHANGED <<store, topics, scheduler, clients, streak, faults, limits,
                   sends, bumps, publishes, broadcasts>>

\* doSend, and the breaker's account of what it returned.
ConsumeDoSend(t) ==
    /\ consumers[t].pc = "do_send"
    /\ \E sendErr \in DoSendResults :
          LET n == consumers[t].n
              b == AfterRequest(breakers[n.channel], consumers[t].fresh, sendErr)
              returned == [consumers EXCEPT ![t] =
                              [@ EXCEPT !.pc = "update",
                                        !.n = AfterSend(@, sendErr),
                                        !.sendErr = sendErr,
                                        !.fresh = FALSE]] IN
          /\ breakers' = [breakers EXCEPT ![n.channel] = b]
          /\ consumers' = IF b.state # breakers[n.channel].state
                          THEN Outdated(returned, n.channel) ELSE returned
          /\ streak' = [streak EXCEPT ![n.channel] = StreakAfter(@, sendErr)]
    /\ sends' = Bump(sends, consumers[t].n.id)
    /\ UNCHANGED <<store, topics, scheduler, clients, faults, limits,
                   bumps, publishes, broadcasts>>

\* After the store write that follows the provider's answer: return sendErr
\* when the delivery will be retried, go on to the batch counter for a batched
\* row, or broadcast and return nil.
AfterUpdate(c) ==
    IF WillRetry(c.n, c.sendErr) THEN Returned(c, c.sendErr)
    ELSE IF c.n.batch_id # Nil THEN [c EXCEPT !.pc = "counter"]
    ELSE Returned(c, ErrNil)

BroadcastsAfterUpdate(c) ==
    IF ~WillRetry(c.n, c.sendErr) /\ c.n.batch_id = Nil
    THEN Bump(broadcasts, c.n.id) ELSE broadcasts

\* s.repo.UpdateStatus(ctx, notification) after the provider answered; an
\* error is logged and the handler goes on.
ConsumeUpdate(t) ==
    /\ consumers[t].pc = "update"
    /\ \/ /\ notifications' = UpdateStatus(notifications, consumers[t].n)
          /\ UNCHANGED faults
       \/ /\ StoreMayFail
          /\ faults' = faults + 1
          /\ UNCHANGED notifications
    /\ consumers' = [consumers EXCEPT ![t] = AfterUpdate(@)]
    /\ broadcasts' = BroadcastsAfterUpdate(consumers[t])
    /\ UNCHANGED <<batches, idempotency_keys, topics, scheduler, clients,
                   limits, breaker, sends, bumps, publishes>>

\* s.repo.IncrementBatchCounter(ctx, *notification.BatchID, status); its error
\* is dropped.  Then broadcastStatus, and the handler returns nil.
ConsumeCounter(t) ==
    /\ consumers[t].pc = "counter"
    /\ \/ /\ batches' = IncrementBatchCounter(batches, consumers[t].n.batch_id,
                                              consumers[t].n.status)
          /\ bumps' = Bump(bumps, consumers[t].n.id)
          /\ UNCHANGED faults
       \/ /\ StoreMayFail
          /\ faults' = faults + 1
          /\ UNCHANGED <<batches, bumps>>
    /\ consumers' = [consumers EXCEPT ![t] = Returned(@, ErrNil)]
    /\ broadcasts' = Bump(broadcasts, consumers[t].n.id)
    /\ UNCHANGED <<notifications, idempotency_keys, topics, scheduler, clients,
                   limits, breaker, sends, publishes>>

\* A variant that writes every retry to the topic of the low priority.
RetryTopicLow(t) == topicForPriority(PriorityLow)

\* The topic of the message Consumer.retry writes: Topic: original.Topic.
RetryTopic(t) == t

\* Consumer.retry: after the sleep, write the original message to its topic
\* again; a failed write is logged.
ConsumeRetry(t) ==
    /\ consumers[t].pc = "returned"
    /\ consumers[t].err # ErrNil
    /\ \/ /\ topics' = [topics EXCEPT ![RetryTopic(t)] = Append(@, Head(topics[t]))]
          /\ UNCHANGED faults
       \/ /\ PublishMayFail
          /\ faults' = faults + 1
          /\ UNCHANGED topics
    /\ consumers' = [consumers EXCEPT ![t].pc = "commit"]
    /\ UNCHANGED <<store, scheduler, clients, ghosts>>

\* reader.CommitMessages(ctx, msg): of a message that cannot be decoded,
\* after the retry, or after the handler returned nil.
ConsumeCommit(t) ==
    /\ \/ consumers[t].pc = "drop"
       \/ consumers[t].pc = "commit"
       \/ consumers[t].pc = "returned" /\ consumers[t].err = ErrNil
    /\ topics' = [topics EXCEPT ![t] = Tail(@)]
    /\ consumers' = [consumers EXCEPT ![t] = IdleConsumer]
    /\ UNCHANGED <<store, scheduler, clients, faults, ghosts>>

\* FetchMessage returns the context's error: consume returns.
ConsumeExit(t) ==
    /\ consumers[t].pc = "fetch"
    /\ ctxErr
    /\ consumers' = [consumers EXCEPT ![t].pc = "exited"]
    /\ UNCHANGED <<store, topics, scheduler, clients, faults, ghosts>>

\* ------------------------------------------------------------------ scheduler
\* Scheduler.Run: on every tick processScheduled, then recoverStuck.  list is
\* the rest of the rows the running sweep selected; pc is the statement:
\*   "idle"           waiting for the ticker
\*   "due_update"     processScheduled: repo.UpdateStatus of the next row
\*   "due_enqueue"    processScheduled: publisher.Enqueue of that row
\*   "stuck_list"     recoverStuck: repo.ListStuckProcessing
\*   "stuck_update"   recoverStuck: repo.UpdateStatus of the next row
\*   "stuck_enqueue"  recoverStuck: publisher.Enqueue of that row
\*   "exited"         Run has returned
IdleScheduler == [pc |-> "idle", list |-> <<>>]

\* n.Status = domain.StatusPending; n.UpdatedAt = time.Now().UTC()
SetPending(n) == [n EXCEPT !.status = StatusPending, !.stuck = FALSE]

\* The statement after a sweep is done with the head of its list.
NextOfSweep(sc, update, after) ==
    IF Len(sc.list) > 1
    THEN [sc EXCEPT !.pc = update, !.list = Tail(@)]
    ELSE [sc EXCEPT !.pc = after, !.list = <<>>]

\* The ticker fires: processScheduled starts with repo.ListDueScheduled.
ProcessScheduledList ==
    /\ scheduler.pc = "idle"
    /\ ~ctxErr
    /\ \E l \in ListDueScheduled(notifications, ListLimitScheduled) :
          scheduler' = IF l = <<>> THEN [pc |-> "stuck_list", list |-> <<>>]
                       ELSE [pc |-> "due_update", list |-> l]
    /\ UNCHANGED <<store, topics, consumers, clients, faults, ghosts>>

\* One row of a sweep: repo.UpdateStatus(ctx, n); on an error the row is skipped.
SweepUpdate(update, enqueue, after) ==
    /\ scheduler.pc = update
    /\ \/ /\ notifications' = UpdateStatus(notifications, SetPending(Head(scheduler.list)))
          /\ scheduler' = [scheduler EXCEPT !.pc = enqueue]
          /\ UNCHANGED faults
       \/ /\ StoreMayFail
          /\ faults' = faults + 1
          /\ scheduler' = NextOfSweep(scheduler, update, after)
          /\ UNCHANGED notifications
    /\ UNCHANGED <<batches, idempotency_keys, topics, consumers, clients, ghosts>>

\* One row of a sweep: publisher.Enqueue(ctx, n); an error is logged.
SweepEnqueue(update, enqueue, after) ==
    /\ scheduler.pc = enqueue
    /\ \/ /\ topics' = Enqueue(topics, Head(scheduler.list))
          /\ publishes' = Bump(publishes, Head(scheduler.list).id)
          /\ UNCHANGED faults
       \/ /\ PublishMayFail
          /\ faults' = faults + 1
          /\ UNCHANGED <<topics, publishes>>
    /\ scheduler' = NextOfSweep(scheduler, update, after)
    /\ UNCHANGED <<store, consumers, clients, limits, breaker, sends, bumps, broadcasts>>

\* Run takes <-ctx.Done() and returns.
SchedulerExit ==
    /\ scheduler.pc = "idle"
    /\ ctxErr
    /\ scheduler' = [scheduler EXCEPT !.pc = "exited"]
    /\ UNCHANGED <<store, topics, consumers, clients, faults, ghosts>>

ProcessScheduledUpdate == SweepUpdate("due_update", "due_enqueue", "stuck_list")
ProcessScheduledEnqueue == SweepEnqueue("due_update", "due_enqueue", "stuck_list")

\* recoverStuck starts with repo.ListStuckProcessing(ctx, 5*time.Minute, 50).
RecoverStuckList ==
    /\ scheduler.pc = "stuck_list"
    /\ \E l \in ListStuckProcessing(notifications, ListLimitStuck) :
          scheduler' = IF l = <<>> THEN IdleScheduler
                       ELSE [pc |-> "stuck_update", list |-> l]
    /\ UNCHANGED <<store, topics, consumers, clients, faults, ghosts>>

RecoverStuckUpdate == SweepUpdate("stuck_update", "stuck_enqueue", "idle")
RecoverStuckEnqueue == SweepEnqueue("stuck_update", "stuck_enqueue", "idle")

\* ------------------------------------------------------------------ environment
\* Time passes: the scheduled_at of a scheduled row is reached.
BecomeDue(i) ==
    /\ notifications[i].id # Nil
    /\ notifications[i].scheduled_at = "future"
    /\ notifications' = [notifications EXCEPT ![i].scheduled_at = "due"]
    /\ UNCHANGED <<batches, idempotency_keys, topics, consumers, scheduler,
                   clients, faults, ghosts>>

\* Time passes: the updated_at of a processing row is now more than 5 minutes
\* ago (its message waits in a backlog, or its worker is slow or stopped).
BecomeStuck(i) ==
    /\ notifications[i].id # Nil
    /\ notifications[i].status = StatusProcessing
    /\ ~notifications[i].stuck
    /\ faults < budget
    /\ notifications' = [notifications EXCEPT ![i].stuck = TRUE]
    /\ faults' = faults + 1
    /\ UNCHANGED <<batches, idempotency_keys, topics, consumers, scheduler,
                   clients, ghosts>>

\* Time passes: the 24 hours (idempotencyTTL) of a key are over.
ExpireKey(k) ==
    /\ idempotency_keys[k].id # Nil
    /\ ~idempotency_keys[k].expired
    /\ idempotency_keys' = [idempotency_keys EXCEPT ![k].expired = TRUE]
    /\ UNCHANGED <<notifications, batches, topics, consumers, scheduler,
                   clients, faults, ghosts>>

\* A producer other than this program writes a message to topic t.
ForeignWrite(t, msg) ==
    /\ faults < budget
    /\ faults' = faults + 1
    /\ topics' = [topics EXCEPT ![t] = Append(@, msg)]
    /\ UNCHANGED <<store, consumers, scheduler, clients, ghosts>>

\* Interval (60 s) has passed since the closed breaker of ch started its
\* generation: a new generation starts.
IntervalExpires(ch) ==
    /\ breakers[ch].state = StateClosed
    /\ \/ breakers[ch] # NewBreaker
       \/ \E t \in priorityTopics : consumers[t].fresh /\ consumers[t].n.channel = ch
    /\ breakers' = [breakers EXCEPT ![ch] = NewGeneration(StateClosed)]
    /\ consumers' = Outdated(consumers, ch)
    /\ UNCHANGED <<store, topics, scheduler, clients, streak, faults, limits,
                   sends, bumps, publishes, broadcasts>>

\* Timeout (30 s) has passed since the breaker of ch opened: it is half-open.
TimeoutExpires(ch) ==
    /\ breakers[ch].state = StateOpen
    /\ breakers' = [breakers EXCEPT ![ch] = NewGeneration(StateHalfOpen)]
    /\ UNCHANGED <<store, topics, consumers, scheduler, clients, streak, faults,
                   limits, sends, bumps, publishes, broadcasts>>

\* The worker receives SIGINT or SIGTERM: main cancels the context.
Shutdown ==
    /\ ctx = "running"
    /\ ctx' = "cancelled"
    /\ UNCHANGED <<store, topics, consumers, scheduler, clients, faults, budget,
                   capacity, listing, backoff, breaker, sends, bumps,
                   publishes, broadcasts>>

\* Consumer.Stop: wg.Wait returns when the three consume calls have
\* returned; the readers and the writer are closed and Stop returns.
ConsumerStop ==
    /\ ctx = "cancelled"
    /\ \A t \in priorityTopics : consumers[t].pc = "exited"
    /\ ctx' = "stopped"
    /\ UNCHANGED <<store, topics, consumers, scheduler, clients, faults, budget,
                   capacity, listing, backoff, breaker, sends, bumps,
                   publishes, broadcasts>>

\* The worker process stops and is started again: its loops start over with
\* new breakers, and the messages it had fetched and not committed are
\* fetched again.
WorkerRestart ==
    /\ faults < budget
    /\ \/ scheduler # IdleScheduler
       \/ \E t \in priorityTopics : consumers[t] # IdleConsumer
       \/ \E ch \in Channels : breakers[ch] # NewBreaker
    /\ consumers' = [t \in priorityTopics |-> IdleConsumer]
    /\ scheduler' = IdleScheduler
    /\ breakers' = [ch \in Channels |-> NewBreaker]
    /\ faults' = faults + 1
    /\ UNCHANGED <<store, topics, clients, streak, limits, sends, bumps,
                   publishes, broadcasts>>

\* ------------------------------------------------------------------ intake
\* One request of the intake service.  op is the operation, pc its statement:
\*   "idle"            no request
\*   "insert"          Create: repo.Create
\*   "setnx"           Create: idempotent.SetNX
\*   "enqueue"         Create: queue.Enqueue or queue.EnqueueScheduled
\*   "batch_enqueue"   CreateBatch: the publish of the next child
\*   "cancel"          Cancel: repo.Cancel
\*   "cancel_counter"  Cancel: repo.IncrementBatchCounter
\*   "done"            the operation returned (n, err)
\* input is the request, n the notification it works on or returns, ns the
\* children of a batch that are still to be published.
IdleClient == [pc |-> "idle", op |-> "none", input |-> NoRow, n |-> NoRow,
               ns |-> <<>>, err |-> ErrNil]

CreateNotificationInput ==
    [channel : Channels, priority : Priorities,
     scheduled_at : {"nil", "future"}, idempotency_key : {Nil} \cup Keys]

\* The operation returns (n, err): of n, the response keeps the id.
Done(c, n, err) ==
    [c EXCEPT !.pc = "done", !.n = [id |-> n.id], !.err = err]

\* A variant of the lookup that goes on to the insert whatever Check returns.
CreateLookupIgnoresHit(c, input) ==
    [c EXCEPT !.op = "create", !.input = input, !.pc = "insert"]

\* NotificationService.Create up to repo.Create: the idempotency lookup and,
\* on a hit, the return of the notification the key is bound to.
CreateLookup(c, input) ==
    LET hit == IF input.idempotency_key # Nil
               THEN Check(idempotency_keys, input.idempotency_key) ELSE Nil IN
    IF hit # Nil
    THEN Done([c EXCEPT !.op = "create", !.input = input], notifications[hit], ErrNil)
    ELSE [c EXCEPT !.op = "create", !.input = input, !.pc = "insert"]

CreateStart(c, input) ==
    /\ clients[c].pc = "idle"
    /\ clients' = [clients EXCEPT ![c] = CreateLookup(@, input)]
    /\ FreeIds(notifications) # {} \/ input.idempotency_key # Nil
    /\ UNCHANGED <<store, topics, consumers, scheduler, faults, ghosts>>

\* domain.NewNotification with the fields Create sets on it.
CreateNotification(id, input, batchID) ==
    [NewNotification(id, input.channel, input.priority, input.scheduled_at)
        EXCEPT !.idempotency_key = input.idempotency_key, !.batch_id = batchID]

\* INSERT INTO notifications ...; the insert was checked to violate no constraint.
RepoCreate(rows, n) == [rows EXCEPT ![n.id] = n]

\* s.repo.Create(ctx, notification); an error is returned to the caller.
CreateInsert(c) ==
    /\ clients[c].pc = "insert"
    /\ LET id == IF FreeIds(notifications) = {} THEN Nil ELSE NextId(notifications)
           n == CreateNotification(id, clients[c].input, Nil) IN
       \/ /\ UniqueViolation(notifications, n.idempotency_key)
          /\ clients' = [clients EXCEPT ![c] = Done(@, NoRow, ErrDuplicateIdempotencyKey)]
          /\ UNCHANGED <<notifications, faults>>
       \/ /\ ~UniqueViolation(notifications, n.idempotency_key)
          /\ id # Nil
          /\ notifications' = RepoCreate(notifications, n)
          /\ clients' = [clients EXCEPT ![c] =
                            [@ EXCEPT !.n = n,
                                      !.pc = IF n.idempotency_key # Nil
                                             THEN "setnx" ELSE "enqueue"]]
          /\ UNCHANGED faults
       \/ /\ StoreMayFail
          /\ faults' = faults + 1
          /\ clients' = [clients EXCEPT ![c] = Done(@, NoRow, ErrStore)]
          /\ UNCHANGED notifications
    /\ UNCHANGED <<batches, idempotency_keys, topics, consumers, scheduler, ghosts>>

\* s.idempotent.SetNX(ctx, key, id); an error is logged.
CreateSetNX(c) ==
    /\ clients[c].pc = "setnx"
    /\ \/ /\ idempotency_keys' = SetNX(idempotency_keys, clients[c].n.idempotency_key,
                                       clients[c].n.id)
          /\ UNCHANGED faults
       \/ /\ StoreMayFail
          /\ faults' = faults + 1
          /\ UNCHANGED idempotency_keys
    /\ clients' = [clients EXCEPT ![c].pc = "enqueue"]
    /\ UNCHANGED <<notifications, batches, topics, consumers, scheduler, ghosts>>

\* A variant that writes the message to the topic at once.
EnqueueScheduledNow(ts, n) == Enqueue(ts, n)

\* Producer.EnqueueScheduled writes nothing and returns nil.
EnqueueScheduled(ts, n) == ts

\* The publish at the end of Create; a publish error is returned to the caller.
CreateEnqueue(c) ==
    /\ clients[c].pc = "enqueue"
    /\ LET n == clients[c].n IN
       \/ /\ n.scheduled_at # "nil"
          /\ topics' = EnqueueScheduled(topics, n)
          /\ clients' = [clients EXCEPT ![c] = Done(@, n, ErrNil)]
          /\ UNCHANGED <<faults, publishes>>
       \/ /\ n.scheduled_at = "nil"
          /\ topics' = Enqueue(topics, n)
          /\ publishes' = Bump(publishes, n.id)
          /\ clients' = [clients EXCEPT ![c] = Done(@, n, ErrNil)]
          /\ UNCHANGED faults
       \/ /\ n.scheduled_at = "nil"
          /\ PublishMayFail
          /\ faults' = faults + 1
          /\ clients' = [clients EXCEPT ![c] = Done(@, NoRow, ErrPublish)]
          /\ UNCHANGED <<topics, publishes>>
    /\ UNCHANGED <<store, consumers, scheduler, limits, breaker, sends, bumps, broadcasts>>

\* NotificationService.Cancel up to repo.Cancel: GetByID and n.Cancel().
CancelLoad(c, rows, id) ==
    IF rows[id].id = Nil
    THEN Done([c EXCEPT !.op = "cancel"], NoRow, ErrNotificationNotFound)
    ELSE IF ~CanCancel(rows[id])
    THEN Done([c EXCEPT !.op = "cancel"], rows[id], ErrInvalidStatusTransition)
    ELSE [c EXCEPT !.op = "cancel", !.pc = "cancel", !.n = rows[id]]

CancelStart(c, id) ==
    /\ clients[c].pc = "idle"
    /\ clients' = [clients EXCEPT ![c] = CancelLoad(@, notifications, id)]
    /\ UNCHANGED <<store, topics, consumers, scheduler, faults, ghosts>>

\* s.repo.Cancel(ctx, id); an error, or no row affected, is returned.
CancelUpdate(c) ==
    /\ clients[c].pc = "cancel"
    /\ LET n == clients[c].n IN
       \/ /\ CancelRowsAffected(notifications, n.id) = 0
          /\ clients' = [clients EXCEPT ![c] = Done(@, n, ErrInvalidStatusTransition)]
          /\ UNCHANGED <<notifications, faults>>
       \/ /\ CancelRowsAffected(notifications, n.id) = 1
          /\ notifications' = RepoCancel(notifications, n.id)
          /\ clients' = [clients EXCEPT ![c] =
                            IF n.batch_id # Nil
                            THEN [@ EXCEPT !.pc = "cancel_counter"]
                            ELSE Done(@, n, ErrNil)]
          /\ UNCHANGED faults
       \/ /\ StoreMayFail
          /\ faults' = faults + 1
          /\ clients' = [clients EXCEPT ![c] = Done(@, n, ErrStore)]
          /\ UNCHANGED notifications
    /\ UNCHANGED <<batches, idempotency_keys, topics, consumers, scheduler, ghosts>>

\* s.repo.IncrementBatchCounter(ctx, *n.BatchID, StatusCancelled); its error
\* is dropped.
CancelCounter(c) ==
    /\ clients[c].pc = "cancel_counter"
    /\ \/ /\ batches' = IncrementBatchCounter(batches, clients[c].n.batch_id,
                                              StatusCancelled)
          /\ bumps' = Bump(bumps, clients[c].n.id)
          /\ UNCHANGED faults
       \/ /\ StoreMayFail
          /\ faults' = faults + 1
          /\ UNCHANGED <<batches, bumps>>
    /\ clients' = [clients EXCEPT ![c] = Done(@, @.n, ErrNil)]
    /\ UNCHANGED <<notifications, idempotency_keys, topics, consumers, scheduler,
                   limits, breaker, sends, publishes, broadcasts>>

\* The response is written; the request is over.
Return(c) ==
    /\ clients[c].pc = "done"
    /\ clients' = [clients EXCEPT ![c] = IdleClient]
    /\ UNCHANGED <<store, topics, consumers, scheduler, faults, ghosts>>

\* ---- CreateBatch
BatchLimit == 1000

FreeBatchIds == {b \in BatchIds : batches[b].id = Nil}

\* batch := &domain.NotificationBatch{TotalCount: len, PendingCount: len}
NotificationBatch(id, total) ==
    [id |-> id, total_count |-> total, pending_count |-> total,
     delivered_count |-> 0, failed_count |-> 0, cancelled_count |-> 0]

\* The k smallest free ids, in order.
RECURSIVE FreshIds(_, _)
FreshIds(free, k) ==
    IF k = 0 THEN <<>>
    ELSE LET i == CHOOSE x \in free : \A y \in free : x <= y IN
         <<i>> \o FreshIds(free \ {i}, k - 1)

\* The children of the batch: one NewNotification per input, with the batch id.
BatchChildren(inputs, batchID) ==
    LET ids == FreshIds(FreeIds(notifications), Len(inputs)) IN
    [i \in 1..Len(inputs) |-> CreateNotification(ids[i], inputs[i], batchID)]

\* Some INSERT of the transaction violates the UNIQUE constraint on
\* idempotency_key: against a stored row, or against an earlier child.
BatchUniqueViolation(rows, ns) ==
    \E i \in 1..Len(ns) :
        \/ UniqueViolation(rows, ns[i].idempotency_key)
        \/ \E j \in 1..(i - 1) : /\ ns[i].idempotency_key # Nil
                                 /\ ns[j].idempotency_key = ns[i].idempotency_key

\* repo.CreateBatch: the rows after the transaction committed.
RepoCreateBatchRows(rows, ns) ==
    [i \in Ids |-> IF \E k \in 1..Len(ns) : ns[k].id = i
                   THEN ns[CHOOSE k \in 1..Len(ns) : ns[k].id = i]
                   ELSE rows[i]]

\* A variant of the size check that lets an empty batch pass.
BatchSizeErrorAllowsEmpty(len) ==
    IF len > BatchLimit THEN ErrBatchTooLarge ELSE ErrNil

\* The checks of len(input.Notifications) at the start of CreateBatch.
BatchSizeError(len) ==
    IF len = 0 THEN ErrBatchEmpty
    ELSE IF len > BatchLimit THEN ErrBatchTooLarge
    ELSE ErrNil

\* The error of domain.NewNotification for the first input it rejects.
ValidationError(inputs) ==
    IF \E i \in 1..Len(inputs) : inputs[i].priority \notin Priorities
    THEN ErrInvalidPriority ELSE ErrNil

\* A variant of the rollback that keeps the first insert of the transaction.
RolledBackAfterFirstInsert(rows, ns) == RepoCreateBatchRows(rows, SubSeq(ns, 1, 1))

\* repo.CreateBatch returns an error: tx.Rollback undoes every insert.
RolledBack(rows, ns) == rows

\* NotificationService.CreateBatch up to the publishes: the size checks, the
\* construction of the children and repo.CreateBatch, one transaction.
CreateBatchStart(c, inputs) ==
    /\ clients[c].pc = "idle"
    /\ LET call == [clients[c] EXCEPT !.op = "create_batch",
                                      !.input = [size |-> Len(inputs)]] IN
       \/ /\ BatchSizeError(Len(inputs)) # ErrNil
          /\ clients' = [clients EXCEPT ![c] =
                            Done(call, NoRow, BatchSizeError(Len(inputs)))]
          /\ UNCHANGED <<notifications, batches, faults>>
       \/ /\ BatchSizeError(Len(inputs)) = ErrNil
          /\ ValidationError(inputs) # ErrNil
          /\ clients' = [clients EXCEPT ![c] =
                            Done(call, NoRow, ValidationError(inputs))]
          /\ UNCHANGED <<notifications, batches, faults>>
       \/ /\ BatchSizeError(Len(inputs)) = ErrNil
          /\ ValidationError(inputs) = ErrNil
          /\ FreeBatchIds # {}
          /\ Cardinality(FreeIds(notifications)) >= Len(inputs)
          /\ LET b == CHOOSE x \in FreeBatchIds : TRUE
                 ns == BatchChildren(inputs, b) IN
             \/ /\ ~BatchUniqueViolation(notifications, ns)
                /\ batches' = [batches EXCEPT ![b] = NotificationBatch(b, Len(inputs))]
                /\ notifications' = RepoCreateBatchRows(notifications, ns)
                /\ clients' = [clients EXCEPT ![c] =
                                  [call EXCEPT !.pc = "batch_enqueue", !.ns = ns]]
                /\ UNCHANGED faults
             \/ /\ BatchUniqueViolation(notifications, ns)
                /\ notifications' = RolledBack(notifications, ns)
                /\ clients' = [clients EXCEPT ![c] =
                                  Done(call, NoRow, ErrDuplicateIdempotencyKey)]
                /\ UNCHANGED <<batches, faults>>
             \/ /\ StoreMayFail
                /\ faults' = faults + 1
                /\ notifications' = RolledBack(notifications, ns)
                /\ clients' = [clients EXCEPT ![c] = Done(call, NoRow, ErrStore)]
                /\ UNCHANGED batches
    /\ UNCHANGED <<idempotency_keys, topics, consumers, scheduler, ghosts>>

\* The publish of one child after the commit; its error is dropped.
CreateBatchEnqueue(c) ==
    /\ clients[c].pc = "batch_enqueue"
    /\ LET n == Head(clients[c].ns) IN
       \/ /\ n.scheduled_at # "nil"
          /\ topics' = EnqueueScheduled(topics, n)
          /\ UNCHANGED <<faults, publishes>>
       \/ /\ n.scheduled_at = "nil"
          /\ topics' = Enqueue(topics, n)
          /\ publishes' = Bump(publishes, n.id)
          /\ UNCHANGED faults
       \/ /\ n.scheduled_at = "nil"
          /\ PublishMayFail
          /\ faults' = faults + 1
          /\ UNCHANGED <<topics, publishes>>
    /\ clients' = [clients EXCEPT ![c] =
                      IF Len(@.ns) > 1 THEN [@ EXCEPT !.ns = Tail(@)]
                      ELSE Done([@ EXCEPT !.ns = <<>>], NoRow, ErrNil)]
    /\ UNCHANGED <<store, consumers, scheduler, limits, breaker, sends, bumps, broadcasts>>

\* ---- a caller of the queue port
\* Producer.Enqueue(ctx, n), called with the notification n.
EnqueueCall(c, n) ==
    /\ clients[c].pc = "idle"
    /\ publishes[n.id] < MaxPublishes
    /\ LET call == [clients[c] EXCEPT !.op = "enqueue", !.input = n] IN
       \/ /\ EnqueueError(n) # ErrNil
          /\ clients' = [clients EXCEPT ![c] = Done(call, n, EnqueueError(n))]
          /\ UNCHANGED <<topics, publishes, faults>>
       \/ /\ EnqueueError(n) = ErrNil
          /\ topics' = Enqueue(topics, n)
          /\ publishes' = Bump(publishes, n.id)
          /\ clients' = [clients EXCEPT ![c] = Done(call, n, ErrNil)]
          /\ UNCHANGED faults
       \/ /\ EnqueueError(n) = ErrNil
          /\ PublishMayFail
          /\ faults' = faults + 1
          /\ clients' = [clients EXCEPT ![c] = Done(call, n, ErrPublish)]
          /\ UNCHANGED <<topics, publishes>>
    /\ UNCHANGED <<store, consumers, scheduler, limits, breaker, sends, bumps,
                   broadcasts>>

\* ------------------------------------------------------------------ listing
\* GET /notifications: NotificationHandler.List, NotificationRepo.List and
\* NewNotificationListResponse.  A row of the table is its id and created_at.
DefaultPageSize == 20
MaxPageSize == 100

ListIds == 1..MaxListRows

\* ORDER BY created_at DESC, id DESC: r comes before q.
Before(r, q) ==
    \/ r.created_at > q.created_at
    \/ r.created_at = q.created_at /\ r.id > q.id

RECURSIVE OrderBy(_)
OrderBy(S) ==
    IF S = {} THEN <<>>
    ELSE LET first == CHOOSE r \in S : \A q \in S \ {r} : Before(r, q) IN
         <<first>> \o OrderBy(S \ {first})

\* The LIMIT of the query for the page_size of the request.
pageSize(page_size) ==
    IF page_size <= 0 \/ page_size > MaxPageSize THEN DefaultPageSize
    ELSE page_size

\* SELECT * FROM notifications WHERE 1=1 [AND id < cursor]
\* ORDER BY created_at DESC, id DESC LIMIT pageSize
List(table, filter) ==
    Limit(OrderBy({r \in table : filter.cursor = Nil \/ r.id < filter.cursor}),
          pageSize(filter.page_size))

\* notifications[len(notifications)-1] of an empty slice: the handler panics.
Panic == [data |-> <<>>, next_cursor |-> Nil, panic |-> TRUE]

\* The response for the rows of the page and the page_size of the request.
NewNotificationListResponse(rows, page_size) ==
    IF Len(rows) = page_size
    THEN IF rows = <<>> THEN Panic
         ELSE [data |-> rows, next_cursor |-> rows[Len(rows)].id, panic |-> FALSE]
    ELSE [data |-> rows, next_cursor |-> Nil, panic |-> FALSE]

\* No caller is listing.
NoListing == [pc |-> "none", table |-> {}, page_size |-> 0, cursor |-> Nil,
              pages |-> <<>>]

\* The caller sends the request for the next page, with the next_cursor of
\* the page before; it stops at a response without next_cursor.
ListPage ==
    /\ listing.pc = "request"
    /\ LET filter == [cursor |-> listing.cursor, page_size |-> listing.page_size]
           response == NewNotificationListResponse(List(listing.table, filter),
                                                   filter.page_size) IN
       listing' = [listing EXCEPT
                      !.pages = Append(@, response),
                      !.cursor = response.next_cursor,
                      !.pc = IF response.panic THEN "panic"
                             ELSE IF response.next_cursor = Nil THEN "done"
                             ELSE "request"]
    /\ UNCHANGED <<store, topics, consumers, scheduler, clients, faults, budget,
                   capacity, ctx, backoff, breaker, sends, bumps, publishes,
                   broadcasts>>

\* ------------------------------------------------------------------ backoff
\* The delay of Consumer.retry, in milliseconds.
baseDelay == 2000
maxDelay == 30000
JitterRange == 1000

\* retryDelay(id) for the value jitter of rand.Int64N(1000).
retryDelay(id, jitter) ==
    IF baseDelay + jitter > maxDelay THEN maxDelay ELSE baseDelay + jitter

\* No retry is waiting.
NoBackoff == [pc |-> "none", id |-> Nil, attempt |-> 0, delay |-> 0]

\* Consumer.retry up to the end of time.Sleep(delay), for a message of a
\* notification whose handler returned an error.
RetrySleep ==
    /\ backoff.pc = "retry"
    /\ \E jitter \in 0..(JitterRange - 1) :
          backoff' = [backoff EXCEPT !.pc = "slept",
                                     !.delay = retryDelay(backoff.id, jitter)]
    /\ UNCHANGED <<store, topics, consumers, scheduler, clients, faults, budget,
                   capacity, ctx, listing, breaker, sends, bumps, publishes,
                   broadcasts>>

\* ------------------------------------------------------------------ system
InitProgram(rows, allowed) ==
    /\ capacity = rows
    /\ budget = allowed
    /\ ctx = "running"
    /\ breakers = [ch \in Channels |-> NewBreaker]
    /\ streak = [ch \in Channels |-> 0]
    /\ notifications = [i \in Ids |-> NoRow]
    /\ batches = [b \in BatchIds |-> NoRow]
    /\ idempotency_keys = [k \in Keys |-> NoRow]
    /\ topics = [t \in priorityTopics |-> <<>>]
    /\ consumers = [t \in priorityTopics |-> IdleConsumer]
    /\ scheduler = IdleScheduler
    /\ clients = [c \in Clients |-> IdleClient]
    /\ faults = 0
    /\ sends = [i \in Ids |-> 0]
    /\ bumps = [i \in Ids |-> 0]
    /\ publishes = [i \in Ids |-> 0]
    /\ broadcasts = [i \in Ids |-> 0]

InitWith(rows, allowed) ==
    /\ InitProgram(rows, allowed)
    /\ listing = NoListing
    /\ backoff = NoBackoff

\* ---- the pipeline of one notification: a Create or a one-child CreateBatch
\* without idempotency key by a single caller, its cancels, the three consume
\* loops, the scheduler, the passing of time and the faults.
OverSMS == {input \in CreateNotificationInput : input.channel = ChannelSMS}

Unkeyed == {input \in OverSMS : input.idempotency_key = Nil}

Intake ==
    \/ \E input \in Unkeyed : CreateStart(1, input)
    \/ CreateInsert(1)
    \/ CreateEnqueue(1)
    \/ \E input \in Unkeyed : CreateBatchStart(1, <<input>>)
    \/ CreateBatchEnqueue(1)
    \/ \E id \in Ids : CancelStart(1, id)
    \/ CancelUpdate(1)
    \/ CancelCounter(1)
    \/ Return(1)

\* The consume loop of topic t for notifications outside batches.
Consume(t) ==
    \/ ConsumeFetch(t)
    \/ ConsumeMarkProcessing(t)
    \/ ConsumeSend(t)
    \/ ConsumeDoSend(t)
    \/ ConsumeUpdate(t)
    \/ ConsumeRetry(t)
    \/ ConsumeCommit(t)

WorkerUnbatched == \E t \in priorityTopics : Consume(t)

Worker == \E t \in priorityTopics : Consume(t) \/ ConsumeCounter(t)

SchedulerRun ==
    \/ ProcessScheduledList
    \/ ProcessScheduledUpdate
    \/ ProcessScheduledEnqueue
    \/ RecoverStuckList
    \/ RecoverStuckUpdate
    \/ RecoverStuckEnqueue

Environment ==
    \/ \E i \in Ids : BecomeDue(i) \/ BecomeStuck(i)
    \/ WorkerRestart

Init == InitWith(MaxRows, MaxFaults)

Next == Intake \/ Worker \/ SchedulerRun \/ Environment

Spec == Init /\ [][Next]_vars

\* The loops of the worker keep running: the ticker keeps firing and a
\* fetched message is processed.
FairSpec == Spec /\ WF_vars(SchedulerRun) /\ WF_vars(Worker)

\* ---- the intake of concurrent Create requests, with and without
\* idempotency key, and the expiry of keys.
IntakeCreates ==
    \E c \in Clients :
        \/ \E input \in OverSMS : CreateStart(c, input)
        \/ CreateInsert(c)
        \/ CreateSetNX(c)
        \/ CreateEnqueue(c)
        \/ Return(c)

InitIntake == InitWith(MaxNotif, MaxFaults)

NextIntake == IntakeCreates \/ \E k \in Keys : ExpireKey(k)

SpecIntake == InitIntake /\ [][NextIntake]_vars

\* ---- a batch of low-priority notifications sent at once: CreateBatch, the
\* cancels of its children, their delivery, the recovery of stuck rows and
\* the faults.
BatchChildInput ==
    {input \in Unkeyed : input.priority = PriorityLow /\ input.scheduled_at = "nil"}

\* An input that domain.NewNotification rejects.
InvalidChildInput ==
    [channel |-> ChannelSMS, priority |-> "urgent", scheduled_at |-> "nil",
     idempotency_key |-> Nil]

\* The requests: of 0 to MaxBatchSize inputs, valid or not, and one of more
\* inputs than CreateBatch accepts.
BatchInput ==
    UNION {[1..k -> BatchChildInput \cup {InvalidChildInput}] : k \in 0..MaxBatchSize}
        \cup {[k \in 1..(BatchLimit + 1) |-> InvalidChildInput]}

IntakeBatch ==
    \/ \E inputs \in BatchInput : CreateBatchStart(1, inputs)
    \/ CreateBatchEnqueue(1)
    \/ \E id \in Ids : CancelStart(1, id)
    \/ CancelUpdate(1)
    \/ CancelCounter(1)
    \/ Return(1)

SchedulerBatch ==
    \/ ProcessScheduledList
    \/ RecoverStuckList
    \/ RecoverStuckUpdate
    \/ RecoverStuckEnqueue

EnvironmentBatch ==
    \/ \E i \in Ids : BecomeStuck(i)
    \/ WorkerRestart

InitBatch == InitWith(MaxBatchRows, MaxFaults)

NextBatch == IntakeBatch \/ Worker \/ SchedulerBatch \/ EnvironmentBatch

SpecBatch == InitBatch /\ [][NextBatch]_vars

\* ---- the breakers: notifications of high priority on two channels, their
\* delivery through the breakers, the breakers' timers and a worker restart.
BreakerInput ==
    {input \in CreateNotificationInput :
        /\ input.priority = PriorityHigh
        /\ input.scheduled_at = "nil" /\ input.idempotency_key = Nil}

IntakeBreaker ==
    \/ \E input \in BreakerInput : CreateStart(1, input)
    \/ CreateInsert(1)
    \/ CreateEnqueue(1)
    \/ Return(1)

Timers == \E ch \in Channels : IntervalExpires(ch) \/ TimeoutExpires(ch)

InitBreaker == InitWith(MaxNotif, MaxFaults)

NextBreaker == IntakeBreaker \/ WorkerUnbatched \/ Timers \/ WorkerRestart

SpecBreaker == InitBreaker /\ [][NextBreaker]_vars

\* ---- replays: one notification of low priority whose message is consumed
\* again after worker restarts.
ReplayInput ==
    {input \in Unkeyed : input.priority = PriorityLow /\ input.scheduled_at = "nil"}

IntakeReplay ==
    \/ \E input \in ReplayInput : CreateStart(1, input)
    \/ CreateInsert(1)
    \/ CreateEnqueue(1)
    \/ Return(1)

InitReplay == InitWith(MaxRows, MaxReplays)

NextReplay == IntakeReplay \/ WorkerUnbatched \/ WorkerRestart

SpecReplay == InitReplay /\ [][NextReplay]_vars

\* ---- concurrent cancels of one notification, scheduled or not, batched or
\* not, while the scheduler publishes the scheduled rows that are due.
CancelInput == {input \in Unkeyed : input.priority = PriorityLow}

IntakeCancel ==
    \/ \E input \in CancelInput : CreateStart(1, input)
    \/ CreateInsert(1)
    \/ CreateEnqueue(1)
    \/ \E input \in CancelInput : CreateBatchStart(1, <<input>>)
    \/ CreateBatchEnqueue(1)
    \/ \E c \in Clients :
          \/ \E id \in Ids : CancelStart(c, id)
          \/ CancelUpdate(c)
          \/ CancelCounter(c)
          \/ Return(c)

SchedulerCancel ==
    \/ ProcessScheduledList
    \/ ProcessScheduledUpdate
    \/ ProcessScheduledEnqueue
    \/ RecoverStuckList

InitCancel == InitWith(MaxRows, MaxFaults)

NextCancel == IntakeCancel \/ SchedulerCancel \/ \E i \in Ids : BecomeDue(i)

SpecCancel == InitCancel /\ [][NextCancel]_vars

\* ---- the publisher: Enqueue called with notifications of every priority,
\* one of them a priority that topicForPriority has no entry for.
EnqueueInput ==
    {[NewNotification(i, ch, PriorityNormal, "nil") EXCEPT !.priority = p] :
        i \in Ids, ch \in Channels, p \in Priorities \cup {"urgent"}}

InitEnqueue == InitWith(MaxRows, MaxFaults)

NextEnqueue ==
    \E c \in Clients : \/ \E n \in EnqueueInput : EnqueueCall(c, n)
                       \/ Return(c)

SpecEnqueue == InitEnqueue /\ [][NextEnqueue]_vars

\* ---- shutdown: the pipeline of one notification, and the cancellation of
\* the worker's context at any time.
IntakeShutdown ==
    \/ \E input \in Unkeyed : CreateStart(1, input)
    \/ CreateInsert(1)
    \/ CreateEnqueue(1)
    \/ Return(1)

WorkerShutdown == \E t \in priorityTopics : Consume(t) \/ ConsumeExit(t)

SchedulerShutdown == SchedulerRun \/ SchedulerExit

InitShutdown == InitWith(MaxRows, MaxFaults)

NextShutdown ==
    \/ IntakeShutdown
    \/ WorkerShutdown
    \/ SchedulerShutdown
    \/ \E i \in Ids : BecomeDue(i) \/ BecomeStuck(i)
    \/ Shutdown
    \/ ConsumerStop

SpecShutdown == InitShutdown /\ [][NextShutdown]_vars

\* The goroutines of the worker and the call of Consumer.Stop keep running.
FairShutdown ==
    /\ SpecShutdown
    /\ WF_vars(WorkerShutdown)
    /\ WF_vars(SchedulerShutdown)
    /\ WF_vars(ConsumerStop)

\* ---- priorities: unscheduled notifications of any priority; only the loop
\* of notifications.high is known to keep running, the loops of the other
\* topics may stop at any statement for any time.
PriorityInput == {input \in Unkeyed : input.scheduled_at = "nil"}

IntakePriority ==
    \/ \E input \in PriorityInput : CreateStart(1, input)
    \/ CreateInsert(1)
    \/ CreateEnqueue(1)
    \/ Return(1)

InitPriority == InitWith(MaxNotif, MaxFaults)

NextPriority == IntakePriority \/ WorkerUnbatched

SpecPriority == InitPriority /\ [][NextPriority]_vars

FairPriority ==
    SpecPriority /\ WF_vars(Consume(topicForPriority(PriorityHigh)))

\* ---- listing: a caller pages through a table that does not change, with
\* page_size omitted (0) or given.  Two requests in progress at the same time
\* take created_at (time.Now) and the id (uuid.NewV7) in either order, so
\* the order of the ids need not be the order of created_at.
Tables ==
    {T \in SUBSET [id : ListIds, created_at : 1..MaxCreatedAt] :
        \A r, q \in T : r.id = q.id => r = q}

PageSizes == 0..MaxListRows

InitList ==
    /\ InitProgram(0, 0)
    /\ backoff = NoBackoff
    /\ listing \in {[NoListing EXCEPT !.pc = "request", !.table = T,
                                       !.page_size = k] :
                        T \in Tables, k \in PageSizes}

NextList == ListPage

SpecList == InitList /\ [][NextList]_vars

\* ---- retry delay: the handler returned an error for the attempt with
\* number attempt (the retry_count the row had) of a notification.
InitDelay ==
    /\ InitProgram(0, 0)
    /\ listing = NoListing
    /\ backoff \in {[NoBackoff EXCEPT !.pc = "retry", !.id = i, !.attempt = n] :
                        i \in Ids, n \in 0..MaxAttempt}

NextDelay == RetrySleep

SpecDelay == InitDelay /\ [][NextDelay]_vars

\* ---- foreign messages: one notification of low priority, and messages in
\* its topic that this program did not write: bytes that are no payload, a
\* payload whose id is no UUID, a payload whose id names no row.
ForeignMessages ==
    {[key |-> Nil, value |-> Garbage],
     [key |-> Nil, value |-> Marshal([notification_id |-> InvalidID,
                                      channel |-> ChannelSMS])],
     [key |-> MaxNotif, value |-> Marshal([notification_id |-> MaxNotif,
                                           channel |-> ChannelSMS])]}

InitForeign == InitWith(MaxRows, MaxReplays)

NextForeign ==
    \/ IntakeReplay
    \/ WorkerUnbatched
    \/ \E msg \in ForeignMessages : ForeignWrite(topicForPriority(PriorityLow), msg)

SpecForeign == InitForeign /\ [][NextForeign]_vars

\* ---- stuck rows: one notification of low priority that is left in status
\* processing, the sweep that recovers it, and the store and topic errors on
\* the way.
SchedulerStuck ==
    \/ ProcessScheduledList
    \/ RecoverStuckList
    \/ RecoverStuckUpdate
    \/ RecoverStuckEnqueue

InitStuck == InitWith(MaxRows, MaxStuckFaults)

NextStuck ==
    \/ IntakeReplay
    \/ WorkerUnbatched
    \/ SchedulerStuck
    \/ \E i \in Ids : BecomeStuck(i)

SpecStuck == InitStuck /\ [][NextStuck]_vars

\* The ticker keeps firing and a fetched message is processed.
FairStuck == SpecStuck /\ WF_vars(SchedulerStuck) /\ WF_vars(WorkerUnbatched)

\* ------------------------------------------------------------------ properties
Row(i) == notifications[i]
Exists(i) == notifications[i].id # Nil

\* C1: once the stored status of a notification is delivered, failed or
\* cancelled, no step of the worker, the scheduler or a Cancel changes it.
C1_TerminalStatusIsFinal ==
    [][\A i \in Ids :
          (Exists(i) /\ Row(i).status \in Terminal)
              => notifications'[i].status = Row(i).status]_vars

\* The handler is entered for the message at the head of topic t in this step.
HandlerEntered(t) == consumers[t].pc = "fetch" /\ consumers'[t].pc # "fetch"

HeadId(t) == Head(topics[t]).value.notification_id

\* C2: ProcessDelivery entered for a notification whose stored status is
\* delivered, failed or cancelled returns nil at once: it goes on to no store
\* write, provider call, counter update or broadcast.
C2_TerminalRowIsSkipped ==
    [][\A t \in priorityTopics :
          (HandlerEntered(t) /\ Exists(HeadId(t))
                /\ Row(HeadId(t)).status \in Terminal)
              => /\ consumers'[t].pc = "returned"
                 /\ consumers'[t].err = ErrNil
                 /\ UNCHANGED <<store, sends, bumps, broadcasts>>]_vars

BatchExists(b) == batches[b].id # Nil

\* C3: every batch row satisfies pending_count + delivered_count +
\* failed_count + cancelled_count = total_count, in every reachable state.
C3_BatchCountersSumToTotal ==
    \A b \in BatchIds :
        BatchExists(b) =>
            batches[b].pending_count + batches[b].delivered_count
                + batches[b].failed_count + batches[b].cancelled_count
              = batches[b].total_count

\* A batch of two children, one of them delivered and the other cancelled.
C3_Witness ==
    \E b \in BatchIds :
        /\ BatchExists(b)
        /\ batches[b].total_count = 2
        /\ batches[b].delivered_count = 1
        /\ batches[b].cancelled_count = 1

\* C4: for every batched notification the batch counters are bumped at most
\* once in total, whatever is re-published, retried or replayed.
C4_CountersBumpedAtMostOnce ==
    \A i \in Ids : (Exists(i) /\ Row(i).batch_id # Nil) => bumps[i] <= 1

\* C5: the counter update of a batched child is atomic with its terminal
\* status write: in every reachable state the child's counter has been bumped
\* exactly when its stored status is terminal.
C5_CounterAtomicWithTerminalStatus ==
    \A i \in Ids :
        (Exists(i) /\ Row(i).batch_id # Nil)
            => ((bumps[i] >= 1) <=> (Row(i).status \in Terminal))

CreateReturned(c) == clients[c].pc = "done" /\ clients[c].op = "create"

RowsWithKey(k) == {i \in Ids : Exists(i) /\ Row(i).idempotency_key = k}

\* C6: two Create requests that carry the same idempotency key, in a run
\* without store or topic errors, both return the same notification id; one
\* row exists for the key and no more than one message was published for it.
C6_SameKeySameNotification ==
    \A c, d \in Clients :
        (/\ c # d
         /\ faults = 0
         /\ CreateReturned(c) /\ CreateReturned(d)
         /\ clients[c].input.idempotency_key # Nil
         /\ clients[c].input.idempotency_key = clients[d].input.idempotency_key)
            => /\ clients[c].err = ErrNil /\ clients[d].err = ErrNil
               /\ clients[c].n.id = clients[d].n.id
               /\ Cardinality(RowsWithKey(clients[c].input.idempotency_key)) = 1
               /\ publishes[clients[c].n.id] <= 1

\* Create is entered by request c in this step.
CreateEntered(c) ==
    clients[c].pc = "idle" /\ clients'[c].pc # "idle" /\ clients'[c].op = "create"

IntakeOver(i) ==
    \A c \in Clients :
        /\ clients[c].pc \in {"setnx", "enqueue"} => clients[c].n.id # i
        /\ \A k \in 1..Len(clients[c].ns) : clients[c].ns[k].id # i

\* Row i was persisted as pending by Create and the publish that followed
\* failed: it is an unscheduled row outside any batch that no message was
\* ever published for, and no request is still to publish it.
PublishFailedAtCreate(i) ==
    /\ Exists(i) /\ Row(i).status = StatusPending
    /\ Row(i).batch_id = Nil /\ Row(i).scheduled_at = "nil"
    /\ publishes[i] = 0 /\ IntakeOver(i)

\* C8: a pending notification whose publish failed in Create does not stay
\* pending and unpublished for ever: it is published later, or leaves pending.
C8_UnpublishedRowIsRecovered ==
    \A i \in Ids :
        PublishFailedAtCreate(i)
            ~> (Exists(i) /\ (publishes[i] > 0 \/ Row(i).status # StatusPending))

\* C9: the provider send attempts made for a notification never exceed its
\* max_retries.
C9_SendsWithinMaxRetries ==
    \A i \in Ids : Exists(i) => sends[i] <= Row(i).max_retries

\* C10: a notification that is failed with a transient error as its cause has
\* retry_count = max_retries and its error message set.
C10_TransientFailureAtMaxRetries ==
    \A i \in Ids :
        (Exists(i) /\ Row(i).status = StatusFailed
            /\ (isTransient(Row(i).error_message) \/ Row(i).error_message = ErrNil))
            => /\ Row(i).retry_count = Row(i).max_retries
               /\ Row(i).error_message # ErrNil

\* C11: every notification whose stored status is delivered has its
\* provider_message_id and sent_at set and retry_count <= max_retries.
C11_DeliveredRowIsComplete ==
    \A i \in Ids :
        (Exists(i) /\ Row(i).status = StatusDelivered)
            => /\ Row(i).provider_message_id
               /\ Row(i).sent_at
               /\ Row(i).retry_count <= Row(i).max_retries

\* The handler of topic t goes from statement from to another one of its own
\* statements in this step (the worker is not restarted).
HandlerStep(t, from) ==
    /\ consumers[t].pc = from
    /\ consumers'[t].pc \in {"send", "do_send", "update", "counter", "returned"}
    /\ consumers'[t].pc # from

\* C12: a permanent provider error on the first attempt marks the row failed
\* with retry_count = 1 and the error message; the row is stored so, one
\* broadcast is emitted, and the handler returns nil: the consume loop
\* commits the message and does not write it to the topic again.
C12_PermanentErrorFailsAtOnce ==
    [][\A t \in priorityTopics :
          LET c == consumers[t]
              d == consumers'[t] IN
          /\ (HandlerStep(t, "do_send") /\ d.sendErr = ErrPermanent
                /\ c.n.retry_count = 0)
                => /\ d.n.status = StatusFailed
                   /\ d.n.retry_count = 1
                   /\ d.n.error_message = ErrPermanent
          /\ (HandlerStep(t, "update") /\ c.sendErr = ErrPermanent)
                => /\ faults' = faults => notifications'[c.n.id] = c.n
                   /\ IF c.n.batch_id # Nil
                      THEN d.pc = "counter" /\ UNCHANGED broadcasts
                      ELSE /\ d.pc = "returned" /\ d.err = ErrNil
                           /\ broadcasts' = Bump(broadcasts, c.n.id)
          /\ (HandlerStep(t, "counter") /\ c.sendErr = ErrPermanent)
                => /\ d.pc = "returned" /\ d.err = ErrNil
                   /\ broadcasts' = Bump(broadcasts, c.n.id)
          /\ (c.pc = "returned" /\ c.sendErr = ErrPermanent /\ d # c
                /\ faults' = faults)
                => /\ d = IdleConsumer
                   /\ topics' = [topics EXCEPT ![t] = Tail(@)]]_vars

\* The first attempt of a notification ended with a permanent error: it is
\* stored failed with retry_count 1, one broadcast went out and the handler
\* returned nil.
C12_Witness ==
    \E t \in priorityTopics :
        /\ consumers[t].pc = "returned" /\ consumers[t].err = ErrNil
        /\ consumers[t].sendErr = ErrPermanent
        /\ sends[consumers[t].n.id] = 1
        /\ Row(consumers[t].n.id).status = StatusFailed
        /\ Row(consumers[t].n.id).retry_count = 1
        /\ Row(consumers[t].n.id).error_message = ErrPermanent
        /\ broadcasts[consumers[t].n.id] = 1

\* C13: when the breaker of the channel rejects the call and the notification
\* has retries left, the handler does not mark the row failed: retry_count
\* grows by 1 and the error it returns is transient, so the message is
\* retried.
C13_BreakerRejectionIsTransient ==
    [][\A t \in priorityTopics :
          (/\ consumers[t].pc = "send" /\ consumers'[t].pc = "update"
           /\ HasRetriesLeft(IncrementRetry(consumers[t].n)))
              => /\ consumers'[t].n.status # StatusFailed
                 /\ consumers'[t].n.retry_count = consumers[t].n.retry_count + 1
                 /\ isTransient(consumers'[t].sendErr)
                 /\ WillRetry(consumers'[t].n, consumers'[t].sendErr)]_vars

\* A call on channel ch that the breaker counts returns an error in this step.
CountedFailure(ch) ==
    \E t \in priorityTopics :
        /\ HandlerStep(t, "do_send")
        /\ consumers[t].n.channel = ch
        /\ consumers[t].fresh
        /\ consumers'[t].sendErr # ErrNil

CancelEntered(c) ==
    clients[c].pc = "idle" /\ clients'[c].pc # "idle" /\ clients'[c].op = "cancel"

\* The stored status of row i lets it be cancelled.
Cancellable(i) == Row(i).status \in {StatusPending, StatusScheduled}

CancelConflict(c) ==
    /\ clients'[c].pc = "done"
    /\ clients'[c].err = ErrInvalidStatusTransition
    /\ UNCHANGED <<store, bumps>>

\* C15: Cancel goes on to cancel the row only when its stored status is
\* pending or scheduled; for any other status it returns
\* ErrInvalidStatusTransition and changes no row and no batch counter.
C15_CancelOnlyFromPendingOrScheduled ==
    [][\A c \in Clients :
          /\ (CancelEntered(c) /\ clients'[c].n.id # Nil)
                => IF Cancellable(clients'[c].n.id)
                   THEN clients'[c].pc = "cancel" /\ UNCHANGED <<store, bumps>>
                   ELSE CancelConflict(c)
          /\ (clients[c].pc = "cancel" /\ clients'[c].pc # "cancel"
                /\ faults' = faults)
                => IF Cancellable(clients[c].n.id)
                   THEN /\ notifications'[clients[c].n.id].status = StatusCancelled
                        /\ clients'[c].pc \in {"cancel_counter", "done"}
                        /\ clients'[c].pc = "done" => clients'[c].err = ErrNil
                   ELSE CancelConflict(c)]_vars

\* A Cancel of a batched row that is already cancelled returned the conflict
\* and the row's counter is bumped once.
C15_Witness ==
    \E c \in Clients :
        /\ clients[c].pc = "done" /\ clients[c].op = "cancel"
        /\ clients[c].err = ErrInvalidStatusTransition
        /\ Row(clients[c].n.id).status = StatusCancelled
        /\ bumps[clients[c].n.id] = 1

\* The Cancel of request c changed the row to cancelled.
CancelSucceeded(c) ==
    /\ clients[c].op = "cancel"
    /\ \/ clients[c].pc = "cancel_counter"
       \/ clients[c].pc = "done" /\ clients[c].err = ErrNil

\* C16: of two Cancel requests for the same notification that are in
\* progress together, one succeeds and the other returns the conflict: when
\* one of them has changed the row, the other's update finds no row to change.
C16_OneOfTwoCancelsSucceeds ==
    [][\A c, d \in Clients :
          (/\ c # d
           /\ CancelSucceeded(d)
           /\ clients[c].pc = "cancel" /\ clients[c].n.id = clients[d].n.id
           /\ clients'[c].pc # "cancel"
           /\ faults' = faults)
              => /\ clients'[c].pc = "done"
                 /\ clients'[c].err = ErrInvalidStatusTransition
                 /\ UNCHANGED notifications]_vars

\* No Cancel of row i is between its update and its return.
CancelOver(i) ==
    \A c \in Clients :
        clients[c].pc \in {"cancel", "cancel_counter"} => clients[c].n.id # i

\* C17: a scheduled notification that was cancelled before any message was
\* published for it stays cancelled, and no message is ever published for it.
C17_CancelledScheduledRowStaysCancelled ==
    [][\A i \in Ids :
          (/\ Exists(i) /\ Row(i).status = StatusCancelled
           /\ Row(i).scheduled_at # "nil"
           /\ publishes[i] = 0 /\ CancelOver(i))
              => /\ notifications'[i].status = StatusCancelled
                 /\ publishes'[i] = 0]_vars

\* C18: a status write of the scheduler or the worker changes the row only
\* if its stored status is still the one the writer read: for the scheduler
\* the status of the row it listed; for the worker, at its first write, a
\* status other than cancelled and delivered (rows it skips), and at its
\* later write, processing.
C18_StatusWritesAreConditional ==
    [][\A i \in Ids :
          (Exists(i) /\ notifications'[i] # Row(i))
              => /\ (scheduler.pc \in {"due_update", "stuck_update"}
                       /\ scheduler'.pc # scheduler.pc)
                       => Row(i).status = Head(scheduler.list).status
                 /\ \A t \in priorityTopics :
                       /\ HandlerStep(t, "mark")
                             => Row(i).status \notin {StatusCancelled, StatusDelivered}
                       /\ HandlerStep(t, "update")
                             => Row(i).status = StatusProcessing]_vars

InTopics(i) ==
    \E t \in priorityTopics : \E k \in 1..Len(topics[t]) : topics[t][k].key = i

\* C19: a notification created with scheduled_at set is stored with status
\* scheduled; as long as the scheduler has not published it no topic holds a
\* message for it, and the message is published only by a sweep of the
\* scheduler, after scheduled_at was reached.
C19_ScheduledRowIsPublishedByScheduler ==
    [][\A i \in Ids :
          /\ (~Exists(i) /\ notifications'[i].id # Nil
                /\ notifications'[i].scheduled_at # "nil")
                => notifications'[i].status = StatusScheduled
          /\ (Exists(i) /\ Row(i).scheduled_at # "nil" /\ publishes[i] = 0)
                => /\ ~InTopics(i)
                   /\ publishes'[i] > 0
                         => /\ Row(i).scheduled_at = "due"
                            /\ scheduler.pc \in {"due_enqueue", "stuck_enqueue"}
                            /\ Head(scheduler.list).id = i]_vars

\* The scheduler published a scheduled notification after it became due.
C19_Witness ==
    \E i \in Ids :
        /\ Exists(i) /\ Row(i).scheduled_at = "due"
        /\ publishes[i] = 1 /\ InTopics(i)

\* C20: a notification with status scheduled whose scheduled_at is reached
\* is set to pending and published by the scheduler (or is cancelled first).
C20_DueRowIsPublished ==
    \A i \in Ids :
        (Exists(i) /\ Row(i).status = StatusScheduled /\ Row(i).scheduled_at = "due")
            ~> (Exists(i) /\ (publishes[i] > 0 \/ Row(i).status = StatusCancelled))

\* A statement of processScheduled for the row at the head of its list fails
\* in this step: the error is logged and the sweep goes on.
DueSweepFailed ==
    /\ scheduler.pc \in {"due_update", "due_enqueue"}
    /\ scheduler' # scheduler
    /\ scheduler'.pc \notin {"due_enqueue", "idle"}
    /\ faults' = faults + 1

\* C21: when persisting or publishing a due scheduled row fails during a
\* tick, the row is still one that ListDueScheduled selects, so that the next
\* tick takes it up again (unless it was cancelled meanwhile).
C21_FailedDueRowIsSelectedAgain ==
    [][DueSweepFailed
          => \/ Head(scheduler.list).id \in DueScheduled(notifications')
             \/ notifications'[Head(scheduler.list).id].status = StatusCancelled]_vars

\* C22: a notification left in status processing for more than 5 minutes is
\* set back to pending with a message for it in its topic (or the worker
\* that holds it goes on with it first).
C22_StuckRowIsRepublished ==
    \A i \in Ids :
        (Exists(i) /\ Row(i).status = StatusProcessing /\ Row(i).stuck)
            ~> /\ Exists(i)
               /\ \/ Row(i).status = StatusPending /\ InTopics(i)
                  \/ Row(i).status \in Terminal
                  \/ Row(i).status = StatusProcessing /\ ~Row(i).stuck

\* C25: a fetched message whose value cannot be decoded goes to its commit
\* at once: limiter.Wait and the handler are not called for it, nothing in
\* the store changes, and the commit removes it without a copy being written.
C25_UndecodableMessageIsDropped ==
    [][\A t \in priorityTopics :
          LET c == consumers[t]
              d == consumers'[t] IN
          /\ (HandlerEntered(t) /\ ~Head(topics[t]).value.json)
                => /\ d = [IdleConsumer EXCEPT !.pc = "drop"]
                   /\ UNCHANGED <<store, topics, ghosts>>
          /\ (c.pc = "drop" /\ d # c)
                => /\ d = IdleConsumer
                   /\ topics' = [topics EXCEPT ![t] = Tail(@)]
                   /\ UNCHANGED <<store, ghosts>>]_vars

\* A message that cannot be decoded is at its commit, unlimited, while a
\* notification of this program waits behind it.
C25_Witness ==
    \E t \in priorityTopics :
        /\ consumers[t].pc = "drop"
        /\ ~consumers[t].limited
        /\ Len(topics[t]) > 1
        /\ Head(topics[t]).value = Garbage

\* C26: when the handler returned the error of a message whose id is no
\* UUID or names no stored notification, the loop goes on to commit the
\* message without writing a copy of it to the topic.
C26_UnknownNotificationIsNotRetried ==
    [][\A t \in priorityTopics :
          (/\ consumers[t].pc = "returned"
           /\ consumers[t].err \in {ErrInvalidUUID, ErrNotificationNotFound}
           /\ consumers'[t] # consumers[t])
              => Len(topics'[t]) <= Len(topics[t])]_vars

\* C24: after the handler returned a transient error the loop goes on to the
\* commit only when a copy of the message, with its key and value, was
\* appended to the same topic; after the handler returned nil the message is
\* committed and no copy is written.
C24_RetryIsWrittenBeforeCommit ==
    [][\A t \in priorityTopics :
          LET c == consumers[t]
              d == consumers'[t] IN
          /\ (c.pc = "returned" /\ c.err = ErrProviderUnavailable /\ d.pc = "commit")
                => topics' = [topics EXCEPT ![t] = Append(@, Head(@))]
          /\ (c.pc = "returned" /\ c.err = ErrNil /\ d # c /\ faults' = faults)
                => /\ d = IdleConsumer
                   /\ topics' = [topics EXCEPT ![t] = Tail(@)]]_vars

\* C23: Enqueue of a notification of priority high, normal or low appends
\* one message to the topic of that name, with the notification id as its
\* key and the JSON of the id and the channel as its value, and changes no
\* other topic (or the write fails, and no topic changes); for any other
\* priority it returns an error and changes no topic.
C23_EnqueueRoutesByPriority ==
    [][\A c \in Clients :
          (clients[c].pc = "idle" /\ clients'[c].op = "enqueue")
              => LET n == clients'[c].input
                     topic == CASE n.priority = "high" -> "notifications.high"
                                [] n.priority = "normal" -> "notifications.normal"
                                [] n.priority = "low" -> "notifications.low"
                                [] OTHER -> "none"
                     msg == [key |-> n.id,
                             value |-> [json |-> TRUE, notification_id |-> n.id,
                                        channel |-> n.channel]] IN
                 IF topic # "none"
                 THEN \/ /\ clients'[c].err = ErrNil
                         /\ topics' = [topics EXCEPT ![topic] = Append(@, msg)]
                      \/ /\ clients'[c].err = ErrPublish
                         /\ faults' = faults + 1
                         /\ UNCHANGED topics
                 ELSE clients'[c].err \notin {ErrNil, ErrPublish} /\ UNCHANGED topics]_vars

\* Enqueue has written a message to each of the three topics and has
\* returned its error for a notification of unknown priority.
C23_Witness ==
    /\ \A t \in priorityTopics : topics[t] # <<>>
    /\ \E c \in Clients :
          /\ clients[c].pc = "done" /\ clients[c].op = "enqueue"
          /\ clients[c].err = ErrUnknownPriority
          /\ clients[c].input.priority \notin Priorities

\* CreateBatch is entered by request c in this step.
CreateBatchEntered(c) ==
    clients[c].pc = "idle" /\ clients'[c].op = "create_batch"

\* C27: CreateBatch returns ErrBatchEmpty for no input and ErrBatchTooLarge
\* for more than 1000 inputs, and stores nothing; for 1 to 1000 inputs it
\* returns neither, and when it accepts N inputs it stores one batch with
\* total_count = pending_count = N and the other counters 0, and N new
\* notifications that carry the batch's id.
C27_BatchSizeLimits ==
    [][\A c \in Clients :
          CreateBatchEntered(c)
              => LET N == clients'[c].input.size
                     d == clients'[c] IN
                 /\ N = 0 => /\ d.pc = "done" /\ d.err = ErrBatchEmpty
                             /\ UNCHANGED store
                 /\ N > 1000 => /\ d.pc = "done" /\ d.err = ErrBatchTooLarge
                                /\ UNCHANGED store
                 /\ (N >= 1 /\ N <= 1000)
                       => \/ d.pc = "batch_enqueue"
                          \/ /\ d.pc = "done"
                             /\ d.err \in {ErrInvalidPriority, ErrStore,
                                            ErrDuplicateIdempotencyKey}
                 /\ d.pc = "batch_enqueue"
                       => \E b \in BatchIds :
                             /\ batches[b].id = Nil
                             /\ batches'[b] = [id |-> b, total_count |-> N,
                                               pending_count |-> N,
                                               delivered_count |-> 0,
                                               failed_count |-> 0,
                                               cancelled_count |-> 0]
                             /\ Len(d.ns) = N
                             /\ \A k \in 1..N :
                                   /\ ~Exists(d.ns[k].id)
                                   /\ notifications'[d.ns[k].id] = d.ns[k]
                                   /\ d.ns[k].batch_id = b
                             /\ \A j, k \in 1..N : j # k => d.ns[j].id # d.ns[k].id
                             /\ \A i \in Ids :
                                   (\A k \in 1..N : d.ns[k].id # i)
                                       => notifications'[i] = notifications[i]]_vars

\* CreateBatch has accepted a request of MaxBatchSize inputs.
C27_Witness ==
    \E c \in Clients : \E b \in BatchIds :
        /\ clients[c].pc = "batch_enqueue"
        /\ clients[c].input.size = MaxBatchSize
        /\ Len(clients[c].ns) = MaxBatchSize
        /\ batches[b].id # Nil /\ batches[b].total_count = MaxBatchSize
        /\ batches[b].pending_count = MaxBatchSize

\* C28: a CreateBatch that returns an error has stored no batch and no
\* notification and has published nothing; and a child is published only
\* when its row and the row of its batch are stored.
C28_BatchIsAllOrNothing ==
    [][\A c \in Clients :
          /\ (CreateBatchEntered(c) /\ clients'[c].pc = "done")
                => /\ clients'[c].err # ErrNil
                   /\ UNCHANGED <<store, topics, publishes>>
          /\ (clients[c].pc = "batch_enqueue" /\ clients'[c] # clients[c])
                => \A i \in Ids :
                      publishes'[i] > publishes[i]
                          => /\ Exists(i) /\ Row(i).batch_id # Nil
                             /\ batches[Row(i).batch_id].id # Nil]_vars

\* A CreateBatch of two inputs has failed on a store error: nothing is stored.
C28_Witness ==
    \E c \in Clients :
        /\ clients[c].pc = "done" /\ clients[c].op = "create_batch"
        /\ clients[c].err = ErrStore
        /\ clients[c].input.size = MaxBatchSize
        /\ \A i \in Ids : ~Exists(i)
        /\ \A b \in BatchIds : batches[b].id = Nil

\* C29: once the worker's context is cancelled no consume loop fetches a
\* message and the scheduler starts no sweep; the three consume loops and the
\* scheduler loop return, and Consumer.Stop returns.
C29_LoopsExitAfterCancel ==
    /\ [][ctx # "running"
             => /\ \A t \in priorityTopics :
                      consumers[t].pc = "fetch"
                          => consumers'[t].pc \in {"fetch", "exited"}
                /\ scheduler.pc = "idle" => scheduler'.pc \in {"idle", "exited"}]_vars
    /\ (ctx = "cancelled")
          ~> /\ ctx = "stopped"
             /\ scheduler.pc = "exited"
             /\ \A t \in priorityTopics : consumers[t].pc = "exited"

\* Consumer.Stop has returned and the loops have exited while a message is
\* still in a topic.
C29_Witness ==
    /\ ctx = "stopped"
    /\ scheduler.pc = "exited"
    /\ \A t \in priorityTopics : consumers[t].pc = "exited"
    /\ \E t \in priorityTopics : topics[t] # <<>>

\* C30: a message of a notification in notifications.high is fetched by the
\* loop of that topic and handed to the handler, whatever the loops of
\* notifications.normal and notifications.low do or fail to do.
C30_HighTopicIsNotStarved ==
    \A i \in Ids :
        (\E k \in DOMAIN topics[topicForPriority(PriorityHigh)] :
             topics[topicForPriority(PriorityHigh)][k].key = i)
          ~> /\ consumers[topicForPriority(PriorityHigh)].pc \notin {"fetch", "drop"}
             /\ topics[topicForPriority(PriorityHigh)] # <<>>
             /\ Head(topics[topicForPriority(PriorityHigh)]).key = i

\* The handler has a message of notifications.high in hand while the loop of
\* notifications.low is at the retry of a message of its own, which is still
\* in its topic.
C30_Witness ==
    /\ consumers[topicForPriority(PriorityHigh)].pc \in {"mark", "send", "do_send", "update"}
    /\ consumers[topicForPriority(PriorityLow)].pc = "returned"
    /\ consumers[topicForPriority(PriorityLow)].err # ErrNil
    /\ topics[topicForPriority(PriorityLow)] # <<>>

\* The handler of topic t leaves provider.Send in this step with the answer
\* of the provider, or with the rejection of the breaker.
SendReturned(t) == HandlerStep(t, "send") \/ HandlerStep(t, "do_send")

\* C31: a transient provider error for a notification that has retries left
\* after the increment: retry_count grows by exactly 1 and the status stays
\* processing; the row is stored so, no batch counter changes, no broadcast
\* is emitted and the handler returns the transient error.
C31_TransientErrorWithRetriesLeft ==
    [][\A t \in priorityTopics :
          LET c == consumers[t]
              d == consumers'[t] IN
          /\ (SendReturned(t) /\ d.pc = "update" /\ isTransient(d.sendErr)
                /\ c.n.retry_count + 1 < c.n.max_retries)
                => /\ d.n.retry_count = c.n.retry_count + 1
                   /\ d.n.status = StatusProcessing
                   /\ d.n = [c.n EXCEPT !.retry_count = @ + 1]
          /\ (HandlerStep(t, "update") /\ isTransient(c.sendErr)
                /\ c.n.retry_count < c.n.max_retries)
                => /\ faults' = faults => notifications'[c.n.id] = c.n
                   /\ c.n.status = StatusProcessing
                   /\ d.pc = "returned" /\ d.err = c.sendErr
                   /\ UNCHANGED <<batches, bumps, broadcasts>>]_vars

\* The first attempt of a notification ended with a transient error: the row
\* is stored processing with retry_count 1 and the handler returned the error.
C31_Witness ==
    \E t \in priorityTopics :
        /\ consumers[t].pc = "returned"
        /\ consumers[t].err = ErrProviderUnavailable
        /\ sends[consumers[t].n.id] = 1
        /\ Row(consumers[t].n.id).status = StatusProcessing
        /\ Row(consumers[t].n.id).retry_count = 1
        /\ broadcasts[consumers[t].n.id] = 0

\* C32: after the increment on a transient provider error the row is kept
\* non-failed and the error is returned whenever retry_count <= max_retries;
\* the row is marked failed only when retry_count exceeds max_retries.
C32_FailedOnlyBeyondMaxRetries ==
    [][\A t \in priorityTopics :
          LET c == consumers[t]
              d == consumers'[t] IN
          (SendReturned(t) /\ d.pc = "update" /\ isTransient(d.sendErr))
              => /\ d.n.retry_count <= d.n.max_retries
                    => d.n.status # StatusFailed
                 /\ d.n.status = StatusFailed
                    => d.n.retry_count > d.n.max_retries]_vars

\* The page size the caller gets: 20 when page_size is omitted.
RequestedPageSize == IF listing.page_size = 0 THEN DefaultPageSize ELSE listing.page_size

\* C33: a listing returns rows ordered by (created_at desc, id desc), at most
\* page_size a page (20 when omitted); a full page carries the id of its last
\* row as next_cursor; following next_cursor visits every row exactly once
\* and ends without error.
C33_ListPagination ==
    /\ listing.pc # "panic"
    /\ \A k \in DOMAIN listing.pages :
          LET data == listing.pages[k].data IN
          /\ Len(data) <= RequestedPageSize
          /\ \A i, j \in DOMAIN data : i < j => Before(data[i], data[j])
          /\ Len(data) = RequestedPageSize
                => listing.pages[k].next_cursor = data[Len(data)].id
    /\ listing.pc = "done"
          => \A r \in listing.table :
                Cardinality({<<k, j>> \in (DOMAIN listing.pages) \X ListIds :
                                /\ j \in DOMAIN listing.pages[k].data
                                /\ listing.pages[k].data[j] = r}) = 1

\* 5 minutes and 1 second, in milliseconds.
ScheduleCap == 300000
ScheduleBase == 1000

\* C34: the delay before the re-attempt after attempt n is
\* min(1s * 2^n + jitter, 5min) for a jitter >= 0: it is positive, at least
\* min(1s * 2^n, 5min) and at most 5 minutes.
C34_DelayFollowsExponentialSchedule ==
    backoff.pc = "slept"
        => /\ backoff.delay > 0
           /\ backoff.delay <= ScheduleCap
           /\ backoff.delay >= IF ScheduleBase * 2^backoff.attempt > ScheduleCap
                               THEN ScheduleCap
                               ELSE ScheduleBase * 2^backoff.attempt

\* C35: the stored retry_count of a notification never decreases, whatever
\* the worker and the two scheduler sweeps write.
C35_RetryCountNeverDecreases ==
    [][\A i \in Ids :
          Exists(i) => notifications'[i].retry_count >= notifications[i].retry_count]_vars

\* C36: every counter of every batch is within bounds: pending_count >= 0,
\* and delivered_count, failed_count and cancelled_count are between 0 and
\* total_count.
C36_BatchCountersWithinBounds ==
    \A b \in BatchIds :
        BatchExists(b) =>
            /\ batches[b].pending_count >= 0
            /\ \A count \in {batches[b].delivered_count, batches[b].failed_count,
                             batches[b].cancelled_count} :
                  0 <= count /\ count <= batches[b].total_count

\* The children of batch b whose stored status is one of statuses.
Children(b, statuses) ==
    {i \in Ids : Exists(i) /\ Row(i).batch_id = b /\ Row(i).status \in statuses}

\* A delivery or a cancel of a child of batch b is in progress.
InProgress(b) ==
    \/ \E t \in priorityTopics :
          /\ consumers[t].pc \notin {"fetch", "drop", "exited"}
          /\ consumers[t].n.id # Nil
          /\ consumers[t].n.batch_id = b
    \/ \E c \in Clients :
          /\ clients[c].pc \in {"cancel", "cancel_counter"}
          /\ clients[c].n.batch_id = b

\* C37: when no delivery and no cancel of a child of a batch is in progress,
\* delivered_count, failed_count and cancelled_count are the numbers of its
\* children stored delivered, failed and cancelled, and pending_count is the
\* number of its children in a status that is not terminal.
C37_CountersMatchChildren ==
    \A b \in BatchIds :
        (BatchExists(b) /\ ~InProgress(b)) =>
            /\ batches[b].delivered_count = Cardinality(Children(b, {StatusDelivered}))
            /\ batches[b].failed_count = Cardinality(Children(b, {StatusFailed}))
            /\ batches[b].cancelled_count = Cardinality(Children(b, {StatusCancelled}))
            /\ batches[b].pending_count
                 = Cardinality(Children(b, {StatusPending, StatusScheduled,
                                            StatusProcessing}))

\* Cancel has returned success for notification i (the caller has the
\* response; the step that ends the request changes nothing else).
CancelReturnedSuccess(i) ==
    \E c \in Clients :
        /\ clients[c].op = "cancel" /\ clients[c].pc = "done"
        /\ clients[c].err = ErrNil /\ clients[c].n.id = i

\* The provider call of the handler of topic t starts in this step.
SendStarts(t) == consumers[t].pc = "send" /\ consumers'[t].pc = "do_send"

\* C38: once Cancel has returned success for a notification no provider send
\* for it starts, whatever a worker with its message in flight does.
C38_NoSendAfterCancel ==
    [][\A t \in priorityTopics :
          SendStarts(t) => ~CancelReturnedSuccess(consumers[t].n.id)]_vars

\* The loop of topic t has a message in hand: fetched and not yet committed.
InHand(t) == consumers[t].pc \notin {"fetch", "exited"}

\* C39: every message of a notification carries its id as key and is in the
\* topic of its priority, so the messages of one notification are handled by
\* one loop, one after another: no two loops have a message of the same
\* notification in hand.
C39_OneDeliveryPerNotification ==
    /\ \A t \in priorityTopics : \A k \in DOMAIN topics[t] :
          LET msg == topics[t][k] IN
          /\ ~UnmarshalFails(msg.value)
          /\ msg.key = Unmarshal(msg.value).notification_id
          /\ msg.key \in Ids /\ Exists(msg.key)
          /\ t = topicForPriority(Row(msg.key).priority)
    /\ \A t, u \in priorityTopics :
          (t # u /\ InHand(t) /\ InHand(u)) => HeadId(t) # HeadId(u)

\* A provider call for a notification is in flight while a second message of
\* the same notification waits in the same topic.
C39_Witness ==
    \E t \in priorityTopics :
        /\ consumers[t].pc = "do_send"
        /\ Len(topics[t]) >= 2
        /\ topics[t][2].key = HeadId(t)

\* The validity window of the binding of key k is over.
Expired(k) == idempotency_keys[k].id # Nil /\ idempotency_keys[k].expired

\* C40: a Create that carries a key whose binding has expired is handled as a
\* new request: repo.Create stores a new notification, SetNX binds the key
\* to its id, and the notification is published.
C40_ExpiredKeyIsANewRequest ==
    [][\A c \in Clients :
          LET k == clients[c].input.idempotency_key IN
          (/\ clients[c].op = "create" /\ clients[c].pc \in {"insert", "setnx"}
           /\ clients'[c] # clients[c]
           /\ k # Nil /\ Expired(k)
           /\ faults' = faults)
              => IF clients[c].pc = "insert"
                 THEN /\ FreeIds(notifications) # {}
                         => /\ clients'[c].pc = "setnx"
                            /\ notifications'[clients'[c].n.id] = clients'[c].n
                            /\ ~Exists(clients'[c].n.id)
                 ELSE /\ idempotency_keys'[k].notification_id = clients[c].n.id
                      /\ ~idempotency_keys'[k].expired
                      /\ clients'[c].pc = "enqueue"]_vars
====
